---- MODULE Spec2Model ----
(***************************************************************************)
(* The Tandem pump simulator (src/unnamed/part_001): a reconciler that     *)
(* receives decoded pump records in time order and accumulates the events  *)
(* to upload.  Optional fields of a JavaScript object are modelled as      *)
(* sequences of length 0 (absent) or 1 (present).                          *)
(* The doses, terminations, suspends, resumes and pod activations of the   *)
(* insulet simulator, of which the repository holds the tests              *)
(* (src/unnamed/part_000), follow further down.                            *)
(***************************************************************************)
EXTENDS Integers, Sequences, FiniteSets, TLC

VARIABLES
  events,         \* var events = []            (part_001:46)
  currBasal,      \* var currBasal = null       (part_001:48)
  currTimestamp,  \* var currTimestamp = null   (part_001:49)
  settings,       \* config.settings            (part_001:42-45,110)
  lastCall,       \* the last call made: the method, its record's time, how it ended
  nops,           \* number of calls made so far
  cap,            \* number of calls the caller makes at most
  nsimple,        \* number of pass-through calls made so far
  nfails,         \* number of calls that threw the ordering error
  finalCalled,    \* finalBasal has been called
  history,        \* the times of the basal records that passed the ordering check, in order
  pendingSuspend, \* the suspend a later resume is anchored to, if any (insulet simulator)
  mostRecentDose, \* the dose a termination is matched with: its place in events and the
                  \* phases still outstanding (insulet simulator)
  lastArg,        \* the record passed to the last call of the insulet simulator
  ingested,       \* the status records that passed the ordering check, in order
  resolver,       \* a TimezoneOffsetUtil: its arguments and, once constructed, its fields
  lookupResult,   \* the last lookup made on the resolver and what it returned
  app             \* the state of the uploader's app: target, clock, upload entries

vars == <<events, currBasal, currTimestamp, settings, lastCall, nops, cap, nsimple,
          nfails, finalCalled, history, pendingSuspend, mostRecentDose, lastArg, ingested,
          resolver, lookupResult, app>>

(* Bounds of the model. *)
MaxOps == 3      \* calls made on one simulator, of any kind
MaxSegOps == 4   \* calls made on one simulator that is given delivery segments only
MaxSimple == 1   \* pass-through calls among them
MaxFails == 1    \* out-of-order calls among them
MaxTime == 2     \* latest record time, in ticks
MaxGap == 1      \* longest gap between two consecutive accepted records, in ticks
MaxSchedOps == 3   \* calls made on one simulator that is given scheduled segments only
MaxDoseOps == 3    \* calls made on one simulator that is given doses and terminations only
MaxStatusOps == 4  \* calls made on one simulator that is given status records and segments
MaxDualOps == 4    \* calls made on one simulator that is given combined doses and terminations
MaxAlarmOps == 2   \* calls made on one simulator that is given alarms and reservoir changes
MaxChanges == 2    \* time changes passed to one TimezoneOffsetUtil
MaxUploads == 2    \* upload entries of the app
MaxUploadOps == 4  \* steps taken by the app and the device on its uploads
MaxSchedTime == 4  \* latest record time of such a session: the first tick of the next day

Times == 0..MaxTime

(***************************************************************************)
(* Date.parse of an ISO timestamp.  A model time is a count of six-hour    *)
(* ticks since the start of the log; Date.parse gives milliseconds.        *)
(***************************************************************************)
DateParse(t) == t * 21600000

(* ------------------------------------------------------------------ *)
(* objectBuilder / eventAnnotations / commonSimulations helpers        *)
(* ------------------------------------------------------------------ *)

(* builder.isAssigned('duration') *)
IsAssignedDuration(b) == b.duration # <<>>

(* builder.with_duration(d) *)
WithDuration(b, d) == [b EXCEPT !.duration = <<d>>]

(* builder.done(): the finished value, without the builder's methods *)
Done(b) == [b EXCEPT !.draft = FALSE]

(* annotate.annotateEvent(event, code) *)
AnnotateEvent(b, code) == [b EXCEPT !.annotations = Append(@, code)]

(* _.omit(obj, 'previous'): a copy without the previous field *)
OmitPreviousKeep(obj) == obj

OmitPrevious(obj) == [obj EXCEPT !.previous = <<>>]

(* delete event.index *)
DeleteIndex(e) == [e EXCEPT !.index = <<>>]

MsInDay == 86400000

(* the settings record of the repository's tests *)
Billy ==
  <<[start |-> 0, rate |-> 10], [start |-> 21600000, rate |-> 11],
    [start |-> 43200000, rate |-> 12], [start |-> 64800000, rate |-> 13]>>

Bob == <<[start |-> 0, rate |-> 0]>>

TestSettings ==
  [activeSchedule |-> "billy",
   basalSchedules |-> [billy |-> Billy, bob |-> Bob]]

(* index of the schedule entry with the greatest start <= ms *)
RECURSIVE MatchEntry(_, _, _)
MatchEntry(sched, ms, i) ==
  IF i <= 1 THEN 1
  ELSE IF sched[i].start <= ms THEN i
  ELSE MatchEntry(sched, ms, i - 1)

(* common.finalScheduledBasal(currBasal, settings, source) *)
FinalScheduledBasalAnyRate(b, s, source) ==
  LET ms == DateParse(b.time) % MsInDay
      sched == s.basalSchedules[s.activeSchedule]
      i == MatchEntry(sched, ms, Len(sched))
      next == IF i = Len(sched) THEN MsInDay ELSE sched[i + 1].start
  IN  Done(WithDuration(
        AnnotateEvent(b, source \o "/basal/fabricated-from-schedule"),
        next - ms))

FinalScheduledBasal(b, s, source) ==
  LET ms == DateParse(b.time) % MsInDay
      known == b.scheduleName \in DOMAIN s.basalSchedules
      sched == IF known THEN s.basalSchedules[b.scheduleName] ELSE <<>>
      i == MatchEntry(sched, ms, Len(sched))
      next == IF i = Len(sched) THEN MsInDay ELSE sched[i + 1].start
      onSchedule == /\ known
                    /\ b.scheduleName = s.activeSchedule
                    /\ sched[i].rate = b.rate
  IN  IF onSchedule
        THEN Done(WithDuration(
               AnnotateEvent(b, source \o "/basal/fabricated-from-schedule"),
               next - ms))
        ELSE Done(AnnotateEvent(
               AnnotateEvent(WithDuration(b, 0), source \o "/basal/off-schedule-rate"),
               "basal/unknown-duration"))

(* ------------------------------------------------------------------ *)
(* Inputs                                                              *)
(* ------------------------------------------------------------------ *)

BasalRecord(dt, rate, name, dur, t, idx) ==
  [type |-> "basal", deliveryType |-> dt, rate |-> rate, scheduleName |-> name,
   duration |-> dur, time |-> t, index |-> <<idx>>, previous |-> <<>>,
   annotations |-> <<>>, draft |-> TRUE]

BasalInputs(t, idx) ==
  { BasalRecord("scheduled", 10, "billy", <<>>, t, idx),
    BasalRecord("temp", 5, "", <<1800000>>, t, idx),
    BasalRecord("suspend", 0, "", <<>>, t, idx),
    BasalRecord("suspend", 0, "", <<3600000>>, t, idx) }

SimpleRecord(type, subType, t, idx) ==
  [type |-> type, subType |-> subType, time |-> t, index |-> <<idx>>]

BolusRecord(normal, t, idx) ==
  [type |-> "bolus", subType |-> "normal", time |-> t, index |-> <<idx>>,
   normal |-> <<normal>>, expectedNormal |-> <<>>]

WizardRecord(bolus, t, idx) ==
  [type |-> "wizard", subType |-> "", time |-> t, index |-> <<idx>>,
   bolus |-> bolus]

(* ------------------------------------------------------------------ *)
(* The simulator                                                       *)
(* ------------------------------------------------------------------ *)

(* no TimezoneOffsetUtil is in use *)
NoResolver == [stage |-> "none"]

InitSimulator(n, configs) ==
  /\ cap = n
  /\ events = <<>>
  /\ currBasal = <<>>
  /\ currTimestamp = <<>>
  /\ settings \in configs
  /\ lastCall = [op |-> "make", time |-> <<>>, result |-> "ok"]
  /\ nops = 0
  /\ nsimple = 0
  /\ nfails = 0
  /\ finalCalled = FALSE
  /\ history = <<>>
  /\ pendingSuspend = <<>>
  /\ mostRecentDose = [pos |-> 0, phases |-> <<>>]
  /\ lastArg = <<>>
  /\ ingested = <<>>

NoApp == [stage |-> "none"]

InitWith(n, configs) ==
  /\ InitSimulator(n, configs)
  /\ resolver = NoResolver
  /\ lookupResult = <<>>
  /\ app = NoApp

(* make() : a simulator made without settings *)
Init == InitWith(MaxOps, {<<>>})

(* bookkeeping common to every call *)
CallMade(op, time, result) ==
  /\ nops < cap
  /\ nops' = nops + 1
  /\ lastCall' = [op |-> op, time |-> time, result |-> result]
  /\ nfails' = IF result = "OrderingViolation" THEN nfails + 1 ELSE nfails
  /\ UNCHANGED <<settings, cap, resolver, lookupResult, app>>

(* a call of a method that knows nothing of suspends and doses *)
Called(op, time, result) ==
  /\ CallMade(op, time, result)
  /\ lastArg' = <<>>
  /\ UNCHANGED <<pendingSuspend, mostRecentDose, ingested>>

(* some call has thrown the ordering error *)
failed == nfails > 0

(* the times a caller may stamp the next record with *)
TimeChoices ==
  IF currTimestamp = <<>> THEN Times
  ELSE { t \in Times : /\ t <= currTimestamp[1] + MaxGap
                        /\ t >= currTimestamp[1] - (IF nfails < MaxFails THEN 1 ELSE 0) }

(* ensureTimestamp: currTimestamp > e.time throws (null > x is false) *)
OutOfOrderLax(ts, e) == ts # <<>> /\ ts[1] >= e.time

OutOfOrder(ts, e) == ts # <<>> /\ ts[1] > e.time

(* simpleSimulate(e) as called by the method `op` *)
SimpleSimulatePushFirst(op, e) ==
  /\ nsimple < MaxSimple
  /\ nsimple' = nsimple + 1
  /\ events' = Append(events, e)
  /\ IF OutOfOrder(currTimestamp, e)
       THEN /\ Called(op, <<e.time>>, "OrderingViolation")
            /\ UNCHANGED currTimestamp
       ELSE /\ Called(op, <<e.time>>, "ok")
            /\ currTimestamp' = <<e.time>>
  /\ UNCHANGED <<currBasal, finalCalled, history>>

SimpleSimulateStampFirst(op, e) ==
  /\ nsimple < MaxSimple
  /\ nsimple' = nsimple + 1
  /\ currTimestamp' = <<e.time>>
  /\ IF OutOfOrder(currTimestamp, e)
       THEN /\ Called(op, <<e.time>>, "OrderingViolation")
            /\ UNCHANGED <<events, currBasal, finalCalled, history>>
       ELSE /\ Called(op, <<e.time>>, "ok")
            /\ events' = Append(events, e)
            /\ UNCHANGED <<currBasal, finalCalled, history>>

SimpleSimulate(op, e) ==
  /\ nsimple < MaxSimple
  /\ nsimple' = nsimple + 1
  /\ IF OutOfOrder(currTimestamp, e)
       THEN /\ Called(op, <<e.time>>, "OrderingViolation")
            /\ UNCHANGED <<events, currBasal, currTimestamp, finalCalled, history>>
       ELSE /\ Called(op, <<e.time>>, "ok")
            /\ currTimestamp' = <<e.time>>
            /\ events' = Append(events, e)
            /\ UNCHANGED <<currBasal, finalCalled, history>>

Alarm == \E t \in TimeChoices :
  SimpleSimulate("alarm", SimpleRecord("deviceEvent", "alarm", t, nops + 1))

Bolus == \E t \in TimeChoices, n \in {0, 13} :
  SimpleSimulate("bolus", BolusRecord(n, t, nops + 1))

ChangeDeviceTime == \E t \in TimeChoices :
  SimpleSimulate("changeDeviceTime", SimpleRecord("deviceEvent", "timeChange", t, nops + 1))

ChangeReservoir == \E t \in TimeChoices :
  SimpleSimulate("changeReservoir", SimpleRecord("deviceEvent", "reservoirChange", t, nops + 1))

Resume == \E t \in TimeChoices :
  SimpleSimulate("resume", SimpleRecord("deviceEvent", "status/resumed", t, nops + 1))

PumpSettings == \E t \in TimeChoices :
  SimpleSimulate("pumpSettings", SimpleRecord("pumpSettings", "", t, nops + 1))

Smbg == \E t \in TimeChoices :
  SimpleSimulate("smbg", SimpleRecord("smbg", "", t, nops + 1))

Suspend == \E t \in TimeChoices :
  SimpleSimulate("suspend", SimpleRecord("deviceEvent", "status/suspended", t, nops + 1))

Wizard == \E t \in TimeChoices : \E b \in {<<>>, <<BolusRecord(0, t, nops + 1)>>} :
  SimpleSimulate("wizard", WizardRecord(b, t, nops + 1))

(* currBasal.time !== event.time fails: a repeated broadcast (part_001:79) *)
SameBroadcastNever(cb, event) == FALSE

SameBroadcast(cb, event) == cb.time = event.time

(* the open basal as it is pushed when `event` follows it (part_001:80-83) *)
CloseBasalNoDuration(cb, event) == Done(cb)

CloseBasalAlwaysDelta(cb, event) ==
  Done(WithDuration(cb, DateParse(event.time) - DateParse(cb.time)))

CloseBasal(cb, event) ==
  Done(IF IsAssignedDuration(cb)
         THEN cb
         ELSE WithDuration(cb, DateParse(event.time) - DateParse(cb.time)))

(* event.previous = _.omit(currBasal, 'previous')  (part_001:84) *)
LinkPrevious(event, closed) == [event EXCEPT !.previous = <<OmitPrevious(closed)>>]

(* basal(event) *)
BasalOp(event) ==
  IF OutOfOrder(currTimestamp, event)
    THEN /\ Called("basal", <<event.time>>, "OrderingViolation")
         /\ UNCHANGED <<events, currBasal, currTimestamp, finalCalled, history, nsimple>>
    ELSE /\ currTimestamp' = <<event.time>>
         /\ IF currBasal # <<>> /\ ~SameBroadcast(currBasal[1], event)
              THEN IF ~currBasal[1].draft
                     THEN \* currBasal.isAssigned is not a function
                          /\ Called("basal", <<event.time>>, "TypeError")
                          /\ UNCHANGED <<events, currBasal, history>>
                     ELSE LET closed == CloseBasal(currBasal[1], event)
                          IN  /\ Called("basal", <<event.time>>, "ok")
                              /\ events' = Append(events, closed)
                              /\ currBasal' = <<LinkPrevious(event, closed)>>
                              /\ history' = Append(history, event.time)
              ELSE /\ Called("basal", <<event.time>>, "ok")
                   /\ currBasal' = <<event>>
                   /\ events' = events
                   /\ history' = Append(history, event.time)
         /\ UNCHANGED <<finalCalled, nsimple>>

Basal == \E t \in TimeChoices : \E e \in BasalInputs(t, nops + 1) : BasalOp(e)

(* the value finalBasal pushes for an open (builder) basal (part_001:92-117) *)
FinalValueNoAnnotation(cb, cfg) ==
  IF cb.deliveryType = "temp" \/ IsAssignedDuration(cb)
    THEN Done(cb)
    ELSE Done(WithDuration(cb, 0))

FinalValueNoTemp(cb, cfg) ==
  Done(AnnotateEvent(WithDuration(cb, 0), "basal/unknown-duration"))

FinalValueIgnoreSettings(cb, cfg) ==
  IF cb.deliveryType = "temp" \/ (cb.deliveryType # "scheduled" /\ IsAssignedDuration(cb))
    THEN Done(cb)
    ELSE Done(AnnotateEvent(WithDuration(cb, 0), "basal/unknown-duration"))

FinalValue(cb, cfg) ==
  IF cb.deliveryType # "scheduled"
    THEN IF cb.deliveryType = "temp"
           THEN Done(cb)
           ELSE IF ~IsAssignedDuration(cb)
                  THEN Done(AnnotateEvent(WithDuration(cb, 0), "basal/unknown-duration"))
                  ELSE Done(cb)
    ELSE IF cfg # <<>>
           THEN FinalScheduledBasal(cb, cfg[1], "tandem")
           ELSE Done(AnnotateEvent(WithDuration(cb, 0), "basal/unknown-duration"))

FinalBasalAgain ==
  /\ finalCalled' = TRUE
  /\ UNCHANGED <<currTimestamp, history, nsimple>>
  /\ IF currBasal = <<>>
       THEN /\ Called("finalBasal", <<>>, "ok")
            /\ UNCHANGED <<events, currBasal>>
       ELSE LET final == IF currBasal[1].draft THEN FinalValue(currBasal[1], settings)
                         ELSE currBasal[1]
            IN  /\ Called("finalBasal", <<>>, "ok")
                /\ currBasal' = <<final>>
                /\ events' = Append(events, final)

(* finalBasal() *)
FinalBasal ==
  /\ finalCalled' = TRUE
  /\ UNCHANGED <<currTimestamp, history, nsimple>>
  /\ IF currBasal = <<>>
       THEN /\ Called("finalBasal", <<>>, "ok")
            /\ UNCHANGED <<events, currBasal>>
       ELSE IF ~currBasal[1].draft
              THEN \* isAssigned / with_duration / done are not functions
                   /\ Called("finalBasal", <<>>, "TypeError")
                   /\ UNCHANGED <<events, currBasal>>
              ELSE LET final == FinalValue(currBasal[1], settings)
                   IN  /\ Called("finalBasal", <<>>, "ok")
                       /\ currBasal' = <<final>>
                       /\ events' = Append(events, final)

(* filterOutZeroBoluses: the predicate of the _.filter *)
KeepEventAll(e) == TRUE

KeepEventAmended(e) ==
  IF e.type = "bolus" THEN e.expectedNormal # <<>> \/ e.normal # <<0>> ELSE TRUE

KeepEvent(e) ==
  IF e.type = "bolus"
    THEN ~(e.normal = <<0>> /\ e.expectedNormal \in {<<>>, <<0>>})
    ELSE IF e.type = "wizard" /\ e.bolus # <<>>
           THEN ~(e.bolus[1].normal = <<0>> /\ e.bolus[1].expectedNormal \in {<<>>, <<0>>})
           ELSE TRUE

(* _.sortBy(list, e.time): a stable sort by time *)
RECURSIVE SortFrom(_, _, _)
SortFrom(s, t, top) ==
  IF t > top THEN <<>>
  ELSE SelectSeq(s, LAMBDA e : e.time = t) \o SortFrom(s, t + 1, top)

Reverse(s) == [i \in 1..Len(s) |-> s[Len(s) + 1 - i]]

SortByTimeUnsorted(s) == s

SortByTimeUnstable(s) == SortFrom(Reverse(s), 0, MaxTime)

SortByTime(s) == SortFrom(s, 0, MaxTime)

MapDeleteIndex(s) == [i \in 1..Len(s) |-> DeleteIndex(s[i])]

(* what getEvents() returns in the current state *)
GetEventsOf(evs) == SortByTime(SelectSeq(MapDeleteIndex(evs), KeepEvent))

GetEventsDraining ==
  /\ Called("getEvents", <<>>, "ok")
  /\ events' = <<>>
  /\ currBasal' = IF currBasal # <<>> /\ ~currBasal[1].draft
                    THEN <<DeleteIndex(currBasal[1])>>
                    ELSE currBasal
  /\ UNCHANGED <<currTimestamp, finalCalled, history, nsimple>>

(* getEvents(): deletes index from every accumulated event, in place *)
GetEvents ==
  /\ Called("getEvents", <<>>, "ok")
  /\ events' = MapDeleteIndex(events)
  /\ currBasal' = IF currBasal # <<>> /\ ~currBasal[1].draft
                    THEN <<DeleteIndex(currBasal[1])>>  \* the object pushed by finalBasal
                    ELSE currBasal
  /\ UNCHANGED <<currTimestamp, finalCalled, history, nsimple>>

Next ==
  \/ Alarm
  \/ Basal
  \/ FinalBasal
  \/ Bolus
  \/ ChangeDeviceTime
  \/ ChangeReservoir
  \/ Resume
  \/ PumpSettings
  \/ Smbg
  \/ Suspend
  \/ Wizard
  \/ GetEvents

Spec == Init /\ [][Next]_vars

(* A session that consists of delivery segments only, on a simulator made
   without settings, make(), or with them, make({settings: settings}). *)
InitSeg == InitWith(MaxSegOps, {<<>>, <<TestSettings>>})

NextSeg ==
  \/ Basal
  \/ FinalBasal
  \/ GetEvents

SpecSeg == InitSeg /\ [][NextSeg]_vars

(* A session of scheduled segments on a simulator made with settings; the
   segments name either schedule of the settings and carry a rate that is or
   is not the rate of the schedule, at any time of the day. *)
ScheduledInputs(t, idx) ==
  { BasalRecord("scheduled", r, n, <<>>, t, idx) : r \in {10, 13}, n \in {"billy", "bob"} }

SchedTimeChoices ==
  IF currTimestamp = <<>> THEN 0..MaxSchedTime
  ELSE { t \in 0..MaxSchedTime :
           /\ t <= currTimestamp[1] + MaxGap
           /\ t >= currTimestamp[1] - (IF nfails < MaxFails THEN 1 ELSE 0) }

BasalScheduled == \E t \in SchedTimeChoices : \E e \in ScheduledInputs(t, nops + 1) : BasalOp(e)

InitSched == InitWith(MaxSchedOps, {<<TestSettings>>})

NextSched ==
  \/ BasalScheduled
  \/ FinalBasal

SpecSched == InitSched /\ [][NextSched]_vars

(* ------------------------------------------------------------------ *)
(* Doses and their terminations (insulet simulator, tested by          *)
(* src/unnamed/part_000; getEvents is the one above)                   *)
(* ------------------------------------------------------------------ *)

(* volumes are counted in tenths of a unit, durations in milliseconds *)
DoseRecord(subType, normal, extended, duration, t, idx) ==
  [type |-> "bolus", subType |-> subType, time |-> t, index |-> <<idx>>,
   normal |-> normal, extended |-> extended, duration |-> duration,
   expectedNormal |-> <<>>, expectedExtended |-> <<>>, expectedDuration |-> <<>>]

DoseInputs(t, idx) ==
  { DoseRecord("normal", <<13>>, <<>>, <<>>, t, idx),
    DoseRecord("normal", <<0>>, <<>>, <<>>, t, idx),
    DoseRecord("square", <<>>, <<14>>, <<1800000>>, t, idx),
    DoseRecord("dual/square", <<13>>, <<14>>, <<0>>, t, idx) }

TerminationRecord(missedInsulin, durationLeft, t) ==
  [type |-> "termination", subType |-> "bolus", time |-> t,
   missedInsulin |-> missedInsulin, durationLeft |-> durationLeft]

TerminationInputs(t) ==
  { TerminationRecord(27, 0, t),
    TerminationRecord(0, 0, t),
    TerminationRecord(14, 1800000, t) }

(* the phases of a dose, in the order in which they are delivered *)
PhasesExtendedFirst(dose) ==
  IF dose.subType = "normal" THEN <<"normal">>
  ELSE IF dose.subType = "square" THEN <<"extended">>
  ELSE <<"extended", "normal">>

Phases(dose) ==
  IF dose.subType = "normal" THEN <<"normal">>
  ELSE IF dose.subType = "square" THEN <<"extended">>
  ELSE <<"normal", "extended">>

(* the dose amended by a termination of one of its phases *)
ApplyTerminationDeclared(dose, phase, term) ==
  IF phase = "normal"
    THEN [dose EXCEPT !.expectedNormal = dose.normal]
    ELSE [dose EXCEPT !.expectedExtended = dose.extended,
                      !.expectedDuration = dose.duration]

ApplyTermination(dose, phase, term) ==
  IF phase = "normal"
    THEN [dose EXCEPT !.expectedNormal = <<dose.normal[1] + term.missedInsulin>>]
    ELSE [dose EXCEPT !.expectedExtended = <<dose.extended[1] + term.missedInsulin>>,
                      !.expectedDuration = <<dose.duration[1] + term.durationLeft>>]

(* the dose of an event: the bolus itself, or the bolus embedded in a wizard *)
DoseOf(e) == IF e.type = "wizard" THEN e.bolus[1] ELSE e

PutDose(e, dose) == IF e.type = "wizard" THEN [e EXCEPT !.bolus = <<dose>>] ELSE dose

(* the accumulated events after a termination: the dose at pos is replaced
   by its amended value and the termination itself is not kept *)
AmendedAndNoticeKept(evs, pos, dose, term) ==
  Append([evs EXCEPT ![pos] = PutDose(@, dose)], term)

Amended(evs, pos, dose, term) == [evs EXCEPT ![pos] = PutDose(@, dose)]

(* a pass-through call that registers the dose of the record *)
RegisterDose(op, e) ==
  /\ lastArg' = <<e>>
  /\ UNCHANGED <<currBasal, finalCalled, history, nsimple, pendingSuspend, ingested>>
  /\ IF OutOfOrder(currTimestamp, e)
       THEN /\ CallMade(op, <<e.time>>, "OrderingViolation")
            /\ UNCHANGED <<events, currTimestamp, mostRecentDose>>
       ELSE /\ CallMade(op, <<e.time>>, "ok")
            /\ currTimestamp' = <<e.time>>
            /\ events' = Append(events, e)
            /\ mostRecentDose' = [pos |-> Len(events) + 1, phases |-> Phases(DoseOf(e))]

(* bolus(event) *)
InsuletBolus == \E t \in TimeChoices : \E e \in DoseInputs(t, nops + 1) :
  RegisterDose("bolus", e)

(* wizard(event), the wizard of a bolus that delivered nothing *)
InsuletWizard == \E t \in TimeChoices :
  RegisterDose("wizard",
    WizardRecord(<<DoseRecord("normal", <<0>>, <<>>, <<>>, t, nops + 1)>>, t, nops + 1))

(* bolusTermination(term) *)
BolusTermination == \E t \in TimeChoices : \E term \in TerminationInputs(t) :
  /\ lastArg' = <<term>>
  /\ UNCHANGED <<currBasal, finalCalled, history, nsimple, pendingSuspend, ingested>>
  /\ IF OutOfOrder(currTimestamp, term)
       THEN /\ CallMade("bolusTermination", <<t>>, "OrderingViolation")
            /\ UNCHANGED <<events, currTimestamp, mostRecentDose>>
       ELSE /\ currTimestamp' = <<t>>
            /\ IF mostRecentDose.phases = <<>>
                 THEN \* no phase to match: ignored, or reported as an anomaly
                      /\ \E r \in {"ok", "unmatched"} : CallMade("bolusTermination", <<t>>, r)
                      /\ UNCHANGED <<events, mostRecentDose>>
                 ELSE LET pos == mostRecentDose.pos
                          amended == ApplyTermination(DoseOf(events[pos]),
                                                      Head(mostRecentDose.phases), term)
                      IN  /\ CallMade("bolusTermination", <<t>>, "ok")
                          /\ events' = Amended(events, pos, amended, term)
                          /\ mostRecentDose' = [mostRecentDose EXCEPT !.phases = Tail(@)]

InitDose == InitWith(MaxDoseOps, {<<>>})

NextDose ==
  \/ InsuletBolus
  \/ InsuletWizard
  \/ BolusTermination
  \/ GetEvents

SpecDose == InitDose /\ [][NextDose]_vars

(* A session of combined doses and their terminations. *)
InsuletDualBolus == \E t \in TimeChoices :
  RegisterDose("bolus", DoseRecord("dual/square", <<13>>, <<14>>, <<0>>, t, nops + 1))

InitDual == InitWith(MaxDualOps, {<<>>})

NextDual ==
  \/ InsuletDualBolus
  \/ BolusTermination
  \/ GetEvents

SpecDual == InitDual /\ [][NextDual]_vars

(* ------------------------------------------------------------------ *)
(* Suspends, resumes and pod activations (insulet simulator, tested by *)
(* src/unnamed/part_000:336-391 and 688-760)                           *)
(* ------------------------------------------------------------------ *)

StatusRecord(status, t, idx) ==
  [type |-> "deviceEvent", subType |-> "status", status |-> status, time |-> t,
   index |-> <<idx>>, previous |-> <<>>]

(* the resume with the pending suspend, if any, as its previous *)
AnchorResumeNever(rec, pending) == rec

AnchorResume(rec, pending) ==
  IF pending # <<>> THEN [rec EXCEPT !.previous = pending] ELSE rec

(* the anchor after a suspend: the first suspend of a run stays *)
NextAnchorLatest(pending, rec) == <<rec>>

NextAnchor(pending, rec) == IF pending = <<>> THEN <<rec>> ELSE pending

(* the anchor after a resume or a pod activation *)
AfterResumeKeep(pending) == pending

AfterResume(pending) == <<>>

(* a status call: what it leaves alone, and the ordering check *)
StatusCall(op, rec, accepted) ==
  /\ lastArg' = <<rec>>
  /\ UNCHANGED <<currBasal, finalCalled, history, nsimple, mostRecentDose>>
  /\ IF OutOfOrder(currTimestamp, rec)
       THEN /\ CallMade(op, <<rec.time>>, "OrderingViolation")
            /\ UNCHANGED <<events, currTimestamp, pendingSuspend, ingested>>
       ELSE /\ CallMade(op, <<rec.time>>, "ok")
            /\ currTimestamp' = <<rec.time>>
            /\ ingested' = Append(ingested, [op |-> op, rec |-> rec])
            /\ accepted

(* suspend(event): a suspend that arrives while one is pending is not
   emitted (part_000:374-390 expects [suspend, resume] only) *)
InsuletSuspend == \E t \in TimeChoices :
  LET rec == StatusRecord("suspended", t, nops + 1)
  IN  StatusCall("suspend", rec,
        /\ events' = IF pendingSuspend = <<>> THEN Append(events, rec) ELSE events
        /\ pendingSuspend' = NextAnchor(pendingSuspend, rec))

(* resume(event) *)
InsuletResume == \E t \in TimeChoices :
  LET rec == StatusRecord("resumed", t, nops + 1)
  IN  StatusCall("resume", rec,
        /\ events' = Append(events, AnchorResume(rec, pendingSuspend))
        /\ pendingSuspend' = AfterResume(pendingSuspend))

(* podActivation(event): the resume is fabricated from the activation *)
PodActivation == \E t \in TimeChoices :
  LET rec == StatusRecord("resumed", t, nops + 1)
  IN  StatusCall("podActivation", rec,
        /\ events' = Append(events, AnchorResume(rec, pendingSuspend))
        /\ pendingSuspend' = AfterResume(pendingSuspend))

StatusBasalInputs(t, idx) == { BasalRecord("scheduled", 10, "billy", <<>>, t, idx) }

BasalAmongStatus == \E t \in TimeChoices : \E e \in StatusBasalInputs(t, nops + 1) : BasalOp(e)

InitStatus == InitWith(MaxStatusOps, {<<>>})

NextStatus ==
  \/ InsuletSuspend
  \/ InsuletResume
  \/ PodActivation
  \/ BasalAmongStatus
  \/ FinalBasal
  \/ GetEvents

SpecStatus == InitStatus /\ [][NextStatus]_vars

(* ------------------------------------------------------------------ *)
(* Alarms and reservoir changes (insulet simulator, tested by          *)
(* src/unnamed/part_000:215-334)                                       *)
(* ------------------------------------------------------------------ *)

AlarmRecord(payload, index, status, t) ==
  [type |-> "deviceEvent", subType |-> "alarm", time |-> t, index |-> index,
   payload |-> payload, status |-> status]

ReservoirChangeRecord(index, status, t) ==
  [type |-> "deviceEvent", subType |-> "reservoirChange", time |-> t, index |-> index,
   status |-> status]

(* the status a record may embed, and the index it may carry *)
EmbeddedStatus(t) == { <<>>, <<[type |-> "deviceEvent", subType |-> "status",
                               status |-> "suspended", time |-> t]>> }

IndexChoices == { <<>>, <<nops + 1>> }

AlarmInputs(t) ==
  { AlarmRecord(p, i, st, t) :
      p \in { <<>>, <<[stopsDelivery |-> TRUE]>> }, i \in IndexChoices, st \in EmbeddedStatus(t) }

ReservoirChangeInputs(t) ==
  { ReservoirChangeRecord(i, st, t) : i \in IndexChoices, st \in EmbeddedStatus(t) }

(* an alarm that stops delivery and has a place in the log must embed a status *)
AlarmLacksContextAnyIndex(e) == e.payload # <<>> /\ e.payload[1].stopsDelivery /\ e.status = <<>>

AlarmLacksContext(e) ==
  /\ e.payload # <<>> /\ e.payload[1].stopsDelivery
  /\ e.status = <<>>
  /\ e.index # <<>>

(* a reservoir change must embed a status *)
ReservoirLacksContextNever(e) == FALSE

ReservoirLacksContext(e) == e.status = <<>>

(* a pass-through call with a validation; a record that fails both the
   validation and the ordering check ends in either error *)
ValidatedSimulate(op, e, lacksContext) ==
  /\ lastArg' = <<e>>
  /\ UNCHANGED <<currBasal, finalCalled, history, nsimple, pendingSuspend, mostRecentDose,
                 ingested>>
  /\ \/ /\ lacksContext
        /\ CallMade(op, <<e.time>>, "MissingRequiredContext")
        /\ UNCHANGED <<events, currTimestamp>>
     \/ /\ OutOfOrder(currTimestamp, e)
        /\ CallMade(op, <<e.time>>, "OrderingViolation")
        /\ UNCHANGED <<events, currTimestamp>>
     \/ /\ ~lacksContext
        /\ ~OutOfOrder(currTimestamp, e)
        /\ CallMade(op, <<e.time>>, "ok")
        /\ currTimestamp' = <<e.time>>
        /\ events' = Append(events, e)

(* alarm(event) *)
InsuletAlarm == \E t \in TimeChoices : \E e \in AlarmInputs(t) :
  ValidatedSimulate("alarm", e, AlarmLacksContext(e))

(* changeReservoir(event) *)
InsuletChangeReservoir == \E t \in TimeChoices : \E e \in ReservoirChangeInputs(t) :
  ValidatedSimulate("changeReservoir", e, ReservoirLacksContext(e))

InitAlarm == InitWith(MaxAlarmOps, {<<>>})

NextAlarm ==
  \/ InsuletAlarm
  \/ InsuletChangeReservoir
  \/ GetEvents

SpecAlarm == InitAlarm /\ [][NextAlarm]_vars

(* ------------------------------------------------------------------ *)
(* TimezoneOffsetUtil (src/lib/TimezoneOffsetUtil.js).  Times are      *)
(* counted in minutes; a timestamp that does not parse, a null and an  *)
(* undefined are empty sequences.                                      *)
(* ------------------------------------------------------------------ *)

MAX_DIFF == 1560

(* the most recent datum of the tests below, in minutes *)
MostRecentTime == 2000

(* the timezones a caller may name, the second unknown to sundial *)
Timezones == {"Asia/Kolkata", "Mars/Phobos"}

(* sundial.checkTimezoneName does not throw *)
ValidTimezone(tz) == tz = "Asia/Kolkata"

(* sundial.getOffsetFromZone(time, timezone), in minutes from UTC *)
GetOffsetFromZone(utc, tz) == 330

(* sundial.applyTimezone(jsDate, timezone): the UTC time of a local time *)
ApplyTimezone(local, tz) == local - GetOffsetFromZone(local, tz)

(* sundial.applyOffset(date, offset) *)
ApplyOffset(date, offset) == date + offset

(* sundial.dateDifference(a, b, 'minutes') *)
DateDifference(a, b) == a - b

(* Math.round(x / q) * q for an integer x: halves go up *)
RoundTo(x, q) == ((2 * x + q) \div (2 * q)) * q

Abs(x) == IF x < 0 THEN 0 - x ELSE x

FindOffsetDifference(event) ==
  RoundTo(DateDifference(event.change.from, event.change.to), 15)

(* adjustCurrentOffset(event): the value of currentOffset after it *)
AdjustCurrentOffset(currentOffset, event) ==
  IF Abs(FindOffsetDifference(event)) <= MAX_DIFF
    THEN currentOffset + RoundTo(DateDifference(event.change.from, event.change.to), 60)
    ELSE currentOffset

(* a time change as the drivers build it *)
TimeChangeRecord(subType, index, jsDate, from, to) ==
  [subType |-> subType, index |-> index, jsDate |-> <<jsDate>>,
   change |-> [from |-> from, to |-> to], time |-> <<>>, timezoneOffset |-> <<>>]

(* the clock changes of the inputs: the time of the change, which is the
   time the clock was set to, and the minutes the clock was set back by *)
ClockChanges ==
  { <<200, -60>>, <<700, -60>>, <<700, 60>>, <<100, 60>>, <<700, 15>>, <<700, 1575>> }

ChangeChoices(index) ==
  { TimeChangeRecord("timeChange", index, c[1], c[1] + c[2], c[1]) : c \in ClockChanges }
  \cup { TimeChangeRecord("reservoirChange", index, 200, 200, 200) }

ChangeIndexes == { 2 * k : k \in 1..MaxChanges }

(* the arrays of changes a caller may pass: any order, no index twice *)
ChangeArrays ==
  UNION { { c \in [1..n -> UNION { ChangeChoices(i) : i \in ChangeIndexes }] :
              \A j, k \in 1..n : j # k => c[j].index # c[k].index } : n \in 0..MaxChanges }

(* _.sortBy(changes, index).reverse() *)
RemoveAt(seq, p) == [k \in 1..(Len(seq) - 1) |-> IF k < p THEN seq[k] ELSE seq[k + 1]]

SortedInputOrder(changes) == changes

RECURSIVE Sorted(_)
Sorted(changes) ==
  IF changes = <<>> THEN <<>>
  ELSE LET p == CHOOSE k \in 1..Len(changes) :
                  /\ \A j \in 1..Len(changes) : changes[j].index <= changes[k].index
                  /\ \A j \in (k + 1)..Len(changes) : changes[j].index < changes[k].index
       IN  <<changes[p]>> \o Sorted(RemoveAt(changes, p))

Interval(start, end, startIndex, endIndex, offset) ==
  [start |-> start, end |-> end, startIndex |-> startIndex, endIndex |-> endIndex,
   timezoneOffset |-> offset]

(* the interval pushed after the loop (lines 110-116) *)
LastIntervalClosed(sorted, r) ==
  Interval(r.records[Len(sorted)].time, r.records[Len(sorted)].time,
           r.currentIndex, <<>>, r.currentOffset[1])

LastInterval(sorted, r) ==
  Interval(<<>>, r.records[Len(sorted)].time, r.currentIndex, <<>>, r.currentOffset[1])

(* one pass of the loop (lines 78-108) over sorted[i], from the fields r *)
Step(sorted, i, r, tz, mostRecent) ==
  LET change == sorted[i]
      time == IF i = 1 THEN ApplyTimezone(change.jsDate[1], tz)
              ELSE ApplyOffset(change.jsDate[1], 0 - r.currentOffset[1])
      offset == IF i = 1 THEN GetOffsetFromZone(time, tz) ELSE r.currentOffset[1]
      done == [change EXCEPT !.time = <<time>>, !.timezoneOffset = <<offset>>,
                             !.jsDate = <<>>]
  IN  [offsetIntervals |->
         Append(r.offsetIntervals,
                Interval(<<time>>,
                         IF i = 1 THEN mostRecent ELSE r.records[i - 1].time,
                         IF i = 1 THEN <<>> ELSE r.currentIndex,
                         <<change.index>>, offset)),
       currentOffset |-> <<AdjustCurrentOffset(offset, change)>>,
       currentIndex |-> <<change.index>>,
       records |-> Append(r.records, done),
       adjusted |-> Append(r.adjusted, [event |-> change, before |-> offset,
                                        after |-> AdjustCurrentOffset(offset, change)])]

RECURSIVE Loop(_, _, _, _, _)
Loop(sorted, i, r, tz, mostRecent) ==
  IF i > Len(sorted) THEN r
  ELSE Loop(sorted, i + 1, Step(sorted, i, r, tz, mostRecent), tz, mostRecent)

(* the error the constructor throws, if any (lines 54-74) *)
ArgumentErrorTimezoneOnly(tz, mostRecent, changes) ==
  IF ~ValidTimezone(tz) THEN <<"InvalidTimezone">> ELSE <<>>

ArgumentError(tz, mostRecent, changes) ==
  IF ~ValidTimezone(tz) THEN <<"InvalidTimezone">>
  ELSE IF mostRecent = <<>> THEN <<"InvalidTimestamp">>
  ELSE IF \E k \in 1..Len(changes) : changes[k].subType # "timeChange"
         THEN <<"WrongSubType">>
         ELSE <<>>

(* the fields of a constructed TimezoneOffsetUtil (lines 76-119) *)
Constructed(tz, mostRecent, changes) ==
  LET sorted == Sorted(changes)
      r0 == [offsetIntervals |-> <<>>, currentOffset |-> <<>>, currentIndex |-> <<>>,
             records |-> <<>>, adjusted |-> <<>>]
      r == Loop(sorted, 1, r0, tz, mostRecent)
  IN  IF changes = <<>> THEN r0
      ELSE [r EXCEPT !.offsetIntervals = Append(@, LastInterval(sorted, r))]

(* new TimezoneOffsetUtil(timezone, mostRecent, changes) *)
Construct ==
  /\ resolver.stage = "new"
  /\ LET err == ArgumentError(resolver.timezone, resolver.mostRecent, resolver.changes)
     IN  resolver' =
           IF err # <<>>
             THEN [resolver EXCEPT !.stage = "failed", !.error = err]
             ELSE [resolver EXCEPT !.stage = "built",
                                   !.fields = <<Constructed(resolver.timezone,
                                                            resolver.mostRecent,
                                                            resolver.changes)>>]
  /\ UNCHANGED <<events, currBasal, currTimestamp, settings, lastCall, nops, cap, nsimple,
                 nfails, finalCalled, history, pendingSuspend, mostRecentDose, lastArg,
                 ingested, lookupResult, app>>

(* the test an interval is returned on (lines 136-160) *)
MatchesByTime(interval, utc, index) ==
  \/ interval.start # <<>> /\ utc >= interval.start[1] /\ utc <= interval.end[1]
  \/ interval.start = <<>> /\ utc <= interval.end[1]

MatchesAnyIndex(interval, utc, index) ==
  IF index # <<>> THEN TRUE
  ELSE \/ interval.start # <<>> /\ utc >= interval.start[1] /\ utc <= interval.end[1]
       \/ interval.start = <<>> /\ utc <= interval.end[1]

Matches(interval, utc, index) ==
  IF index # <<>>
    THEN IF interval.startIndex # <<>> /\ interval.endIndex # <<>>
           THEN index[1] < interval.startIndex[1] /\ index[1] > interval.endIndex[1]
           ELSE IF interval.endIndex # <<>> THEN index[1] > interval.endIndex[1]
           ELSE IF interval.startIndex # <<>> THEN index[1] < interval.startIndex[1]
           ELSE FALSE
    ELSE \/ interval.start # <<>> /\ utc >= interval.start[1] /\ utc <= interval.end[1]
         \/ interval.start = <<>> /\ utc <= interval.end[1]

(* this.lookup(datetime, index): <<>> when the loop ends without a return *)
RECURSIVE LookupFrom(_, _, _, _)
LookupFrom(intervals, i, datetime, index) ==
  IF i > Len(intervals) THEN <<>>
  ELSE LET utc == ApplyOffset(datetime, 0 - intervals[i].timezoneOffset)
       IN  IF Matches(intervals[i], utc, index)
             THEN <<[time |-> utc, timezoneOffset |-> intervals[i].timezoneOffset]>>
             ELSE LookupFrom(intervals, i + 1, datetime, index)

LookupValue(datetime, index) ==
  LET intervals == resolver.fields[1].offsetIntervals
  IN  IF intervals # <<>> THEN LookupFrom(intervals, 1, datetime, index)
      ELSE LET utc == ApplyTimezone(datetime, resolver.timezone)
           IN  <<[time |-> utc, timezoneOffset |-> GetOffsetFromZone(utc, resolver.timezone)]>>

LocalTimes == {150, 720, MostRecentTime + 330}

RecordIndexes == 0..(2 * MaxChanges + 1)

Lookup == \E datetime \in LocalTimes : \E index \in {<<>>} \cup { <<i>> : i \in RecordIndexes } :
  /\ resolver.stage = "built"
  /\ lookupResult' = <<[via |-> "lookup", datetime |-> datetime, index |-> index,
                        result |-> LookupValue(datetime, index), threw |-> FALSE]>>
  /\ UNCHANGED <<events, currBasal, currTimestamp, settings, lastCall, nops, cap, nsimple,
                 nfails, finalCalled, history, pendingSuspend, mostRecentDose, lastArg,
                 ingested, resolver, app>>

(* this.fillInUTCInfo(obj, jsDate): obj.index || null takes index 0 for no
   index; without a result, res.time throws *)
FillInUTCInfo == \E datetime \in LocalTimes : \E objIndex \in {<<>>} \cup { <<i>> : i \in RecordIndexes } :
  /\ resolver.stage = "built"
  /\ LET index == IF objIndex = <<0>> THEN <<>> ELSE objIndex
         res == LookupValue(datetime, index)
     IN  lookupResult' = <<[via |-> "fillInUTCInfo", datetime |-> datetime, index |-> objIndex,
                           result |-> res, threw |-> res = <<>>]>>
  /\ UNCHANGED <<events, currBasal, currTimestamp, settings, lastCall, nops, cap, nsimple,
                 nfails, finalCalled, history, pendingSuspend, mostRecentDose, lastArg,
                 ingested, resolver, app>>

InitResolver ==
  /\ InitSimulator(0, {<<>>})
  /\ lookupResult = <<>>
  /\ app = NoApp
  /\ \E tz \in Timezones, mostRecent \in {<<>>, <<MostRecentTime>>}, changes \in ChangeArrays :
       resolver = [stage |-> "new", timezone |-> tz, mostRecent |-> mostRecent,
                   changes |-> changes, error |-> <<>>, fields |-> <<>>]

NextResolver ==
  \/ Construct
  \/ Lookup
  \/ FillInUTCInfo

SpecResolver == InitResolver /\ [][NextResolver]_vars

(* ------------------------------------------------------------------ *)
(* appActions.upload (lib/state/appActions, known here by its tests in *)
(* src/test/ui/testAppActions.js).  device.upload finishes later, by   *)
(* its callback; jobs counts the device uploads started and not yet    *)
(* finished for each entry.                                            *)
(* ------------------------------------------------------------------ *)

(* a record of the upload history *)
HistoryRecord(targetId, start, finish, step, percentage, outcome) ==
  [targetId |-> targetId, start |-> start, finish |-> finish, step |-> step,
   percentage |-> percentage, outcome |-> outcome]

(* the progress upload() gives an entry *)
StartProgress(targetId, now) ==
  [targetId |-> targetId, start |-> now, step |-> "start", percentage |-> 0]

UploadEntry(earlier) == [progress |-> <<>>, history |-> earlier]

(* the histories of an entry before anything is uploaded *)
EarlierHistories == {<<>>, <<HistoryRecord("1", 0, 0, "cleanup", 100, "success")>>}

InProgressNever(entry) == FALSE

(* an upload of the entry is in progress *)
InProgress(entry) == entry.progress # <<>>

(* bookkeeping common to every step of the app *)
AppStep ==
  /\ app.nsteps < MaxUploadOps
  /\ UNCHANGED <<events, currBasal, currTimestamp, settings, lastCall, nops, cap, nsimple,
                 nfails, finalCalled, history, pendingSuspend, mostRecentDose, lastArg,
                 ingested, resolver, lookupResult>>

(* appActions.upload(index, options, cb) up to the call of device.upload *)
StartUpload == \E i \in 1..(Len(app.uploads) + 1) :
  /\ AppStep
  /\ app' =
       IF i > Len(app.uploads)
         THEN [app EXCEPT !.nsteps = @ + 1,
                          !.last = [op |-> "upload", index |-> i, result |-> "index"]]
       ELSE IF InProgress(app.uploads[i])
         THEN [app EXCEPT !.nsteps = @ + 1,
                          !.last = [op |-> "upload", index |-> i, result |-> "progress"]]
         ELSE [app EXCEPT !.nsteps = @ + 1,
                          !.last = [op |-> "upload", index |-> i, result |-> "ok"],
                          !.uploads[i].progress = <<StartProgress(app.targetId, app.now)>>,
                          !.jobs[i] = @ + 1]

(* options.progress(step, percentage), called by the device while it uploads *)
ReportProgress == \E i \in 1..Len(app.uploads) :
  \E p \in {[step |-> "fetchData", percentage |-> 50], [step |-> "cleanup", percentage |-> 100]} :
  /\ AppStep
  /\ app.jobs[i] > 0
  /\ app.uploads[i].progress # <<>>
  /\ app' = [app EXCEPT !.nsteps = @ + 1,
                        !.last = [op |-> "progress", index |-> i, result |-> "ok"],
                        !.uploads[i].progress[1].step = p.step,
                        !.uploads[i].progress[1].percentage = p.percentage]

(* the callback of device.upload: the upload is over, well or not *)
FinishUpload == \E i \in 1..Len(app.uploads) : \E outcome \in {"success", "error"} :
  /\ AppStep
  /\ app.jobs[i] > 0
  /\ app.uploads[i].progress # <<>>
  /\ LET p == app.uploads[i].progress[1]
         record == HistoryRecord(p.targetId, p.start, app.now, p.step, p.percentage, outcome)
     IN  app' = [app EXCEPT !.nsteps = @ + 1,
                           !.last = [op |-> "finish", index |-> i, result |-> outcome],
                           !.uploads[i].progress = <<>>,
                           !.uploads[i].history = <<record>> \o @,
                           !.jobs[i] = @ - 1]

(* sundial.utcDateString() moves on *)
Tick ==
  /\ AppStep
  /\ app' = [app EXCEPT !.nsteps = @ + 1, !.now = @ + 1,
                        !.last = [op |-> "tick", index |-> 0, result |-> "ok"]]

InitUpload ==
  /\ InitSimulator(0, {<<>>})
  /\ resolver = NoResolver
  /\ lookupResult = <<>>
  /\ \E targetId \in {"11", "2"} : \E n \in 1..MaxUploads :
       \E histories \in [1..n -> EarlierHistories] :
         app = [stage |-> "bound", targetId |-> targetId, now |-> 1, nsteps |-> 0,
                uploads |-> [i \in 1..n |-> UploadEntry(histories[i])],
                jobs |-> [i \in 1..n |-> 0],
                last |-> [op |-> "bindApp", index |-> 0, result |-> "ok"]]

NextUpload ==
  \/ StartUpload
  \/ ReportProgress
  \/ FinishUpload
  \/ Tick

SpecUpload == InitUpload /\ [][NextUpload]_vars

(* ------------------------------------------------------------------ *)
(* Properties                                                          *)
(* ------------------------------------------------------------------ *)

(* a step is a call: every call counts in nops *)
IsCall(op) == nops' = nops + 1 /\ lastCall'.op = op

IsIngest == nops' = nops + 1 /\ lastCall'.time # <<>>

Threw == lastCall'.result = "OrderingViolation"

IsBasal(e) == e.type = "basal"

LastEvent(evs) == evs[Len(evs)]

(* C1: every ingest call, pass-through or delivery segment, throws the
   ordering error exactly when the record's time is strictly earlier than
   the time of the last record that passed the check; a record with an equal
   or later time passes the check and becomes the new reference, and a
   pass-through record that passes is appended to the events. *)
C1_OrderingChecked ==
  [][IsIngest =>
       /\ Threw <=> (currTimestamp # <<>> /\ lastCall'.time[1] < currTimestamp[1])
       /\ ~Threw => currTimestamp' = lastCall'.time
       /\ (~Threw /\ lastCall'.op # "basal") =>
              /\ lastCall'.result = "ok"
              /\ Len(events') = Len(events) + 1
              /\ LastEvent(events').time = lastCall'.time[1]]_vars

(* an out-of-order segment was rejected after a segment with the time of the
   record before it was accepted *)
C1_Witness ==
  /\ lastCall.op = "basal"
  /\ lastCall.result = "OrderingViolation"
  /\ Len(events) = 1
  /\ currBasal # <<>>
  /\ currBasal[1].time = events[1].time

(* C2, as claimed: once a call has thrown the ordering error, getEvents
   returns no events. *)
C2_NoOutputAfterFailure == failed => GetEventsOf(events) = <<>>

(* C2, amended: a call that throws the ordering error adds no event to what
   getEvents returns and removes none: the events accepted before the failure
   are still returned afterwards. *)
C2_FailureKeepsOutput ==
  [][(nops' = nops + 1 /\ Threw) => GetEventsOf(events') = GetEventsOf(events)]_vars

(* a call has just failed and getEvents would still return an event *)
C2_Witness ==
  /\ lastCall.result = "OrderingViolation"
  /\ GetEventsOf(events) # <<>>

(* the segment a basal call has just closed, when it closed one *)
ClosedOne == IsCall("basal") /\ Len(events') = Len(events) + 1

(* C3, as claimed: the duration of a segment closed by a successor is the
   successor's time minus its own. *)
C3_DurationIsDelta ==
  [][ClosedOne =>
       LastEvent(events').duration =
         <<DateParse(lastCall'.time[1]) - DateParse(currBasal[1].time)>>]_vars

(* C3, amended: a segment closed by a successor that carried no declared
   duration gets the successor's time minus its own as duration; one that
   carried a declared duration keeps it. *)
C3_DurationIsDeltaUnlessDeclared ==
  [][ClosedOne =>
       /\ LastEvent(events').time = currBasal[1].time
       /\ LastEvent(events').duration =
            IF currBasal[1].duration = <<>>
              THEN <<DateParse(lastCall'.time[1]) - DateParse(currBasal[1].time)>>
              ELSE currBasal[1].duration]_vars

(* a scheduled segment was closed by a successor one tick later *)
C3_Witness ==
  /\ lastCall.op = "basal"
  /\ lastCall.result = "ok"
  /\ currBasal # <<>>
  /\ currBasal[1].previous # <<>>
  /\ events # <<>>
  /\ LastEvent(events).deliveryType = "scheduled"
  /\ LastEvent(events).duration = <<21600000>>
  /\ currBasal[1].time = LastEvent(events).time + 1


(* the delivery segments among the events getEvents returns *)
OutputSegments == SelectSeq(GetEventsOf(events), IsBasal)

TimesOf(s) == [i \in 1..Len(s) |-> s[i].time]

(* the times of the accepted segments that were followed by a segment with
   another time *)
ClosedTimes(h) ==
  LET idx == SelectSeq([i \in 1..(Len(h) - 1) |-> i], LAMBDA i : h[i + 1] # h[i])
  IN  [k \in 1..Len(idx) |-> h[idx[k]]]

(* C4, as claimed: as long as finalBasal was not called, getEvents returns
   every accepted segment except the open one. *)
C4_AllButOpen ==
  (~finalCalled /\ history # <<>>) => Len(OutputSegments) = Len(history) - 1

(* C4, amended: as long as finalBasal was not called, the open segment is
   the last accepted one, exactly as it was ingested (no duration inferred,
   no annotation), it is not in what getEvents returns, and getEvents returns
   the accepted segments that were closed by a successor with another time;
   a segment replaced by a same-time broadcast is never returned. *)
C4_OpenSegmentWithheld ==
  (~finalCalled /\ history # <<>>) =>
     /\ currBasal # <<>>
     /\ currBasal[1].time = history[Len(history)]
     /\ OmitPrevious(currBasal[1]) \in
          BasalInputs(currBasal[1].time, currBasal[1].index[1])
     /\ \A i \in 1..Len(OutputSegments) :
          OutputSegments[i].time # currBasal[1].time
     /\ TimesOf(OutputSegments) = ClosedTimes(history)

(* two segments were closed, one was replaced by a same-time broadcast and
   one is open *)
C4_Witness ==
  /\ ~finalCalled
  /\ Len(history) = 3
  /\ history[1] = history[2]
  /\ Len(OutputSegments) = 1

(* C5: no previous carries a previous, in the events and in the open
   segment. *)
PreviousIsFlat(e) ==
  (IsBasal(e) /\ e.previous # <<>>) => e.previous[1].previous = <<>>

C5_PreviousDepthOne ==
  /\ \A i \in 1..Len(events) : PreviousIsFlat(events[i])
  /\ currBasal # <<>> => PreviousIsFlat(currBasal[1])

(* an emitted segment and the open segment both carry a previous *)
C5_Witness ==
  /\ currBasal # <<>>
  /\ currBasal[1].previous # <<>>
  /\ \E i \in 1..Len(events) : IsBasal(events[i]) /\ events[i].previous # <<>>

Segments == SelectSeq(events, IsBasal)

(* the calls so far were accepted basal calls followed by one finalBasal *)
SegmentsThenFinal ==
  /\ lastCall.op = "finalBasal"
  /\ lastCall.result = "ok"
  /\ nops = Len(history) + 1

(* C6: after basal calls followed by finalBasal, every emitted segment but
   the first carries as previous a copy of the segment emitted before it,
   without that one's previous. *)
C6_PreviousChain ==
  SegmentsThenFinal =>
    \A k \in 2..Len(Segments) :
      Segments[k].previous = <<OmitPrevious(Segments[k - 1])>>

(* C6 restricted to sessions without a same-time broadcast *)
C6_PreviousChainWithoutRepeats ==
  (SegmentsThenFinal /\ \A i \in 1..(Len(history) - 1) : history[i] # history[i + 1])
    => /\ Len(Segments) = Len(history)
       /\ \A k \in 2..Len(Segments) :
            Segments[k].previous = <<OmitPrevious(Segments[k - 1])>>

(* a segment without its sequence index *)
Payload(b) == [b EXCEPT !.index = <<>>]

(* C7: a segment with the time of the open segment is ignored: nothing is
   emitted and the open segment, payload and previous, stays as it was. *)
C7_RepeatIgnored ==
  [][(IsCall("basal") /\ lastCall'.result = "ok" /\ currBasal # <<>>
        /\ lastCall'.time = <<currBasal[1].time>>) =>
       /\ events' = events
       /\ currBasal' # <<>>
       /\ Payload(currBasal'[1]) = Payload(currBasal[1])]_vars

(* what does hold of a same-time broadcast: nothing is emitted *)
C7_RepeatEmitsNothing ==
  [][(IsCall("basal") /\ lastCall'.result = "ok" /\ currBasal # <<>>
        /\ lastCall'.time = <<currBasal[1].time>>) => events' = events]_vars

(* a segment is open from the basal call that took it in until finalBasal
   emits it *)
IsOpen(cb) == cb # <<>> /\ cb[1].draft

(* C8: finalBasal with an open segment emits exactly that segment and leaves
   no open segment; with no open segment it emits nothing. *)
C8_FinalClearsOpen ==
  [][IsCall("finalBasal") =>
       IF IsOpen(currBasal)
         THEN /\ Len(events') = Len(events) + 1
              /\ SubSeq(events', 1, Len(events)) = events
              /\ LastEvent(events').time = currBasal[1].time
              /\ LastEvent(events').index = currBasal[1].index
              /\ currBasal' = <<>>
         ELSE events' = events]_vars

(* what does hold of finalBasal: it emits exactly the open segment *)
C8_FinalEmitsOpen ==
  [][IsCall("finalBasal") =>
       IF IsOpen(currBasal)
         THEN /\ Len(events') = Len(events) + 1
              /\ SubSeq(events', 1, Len(events)) = events
              /\ LastEvent(events').time = currBasal[1].time
              /\ LastEvent(events').index = currBasal[1].index
         ELSE events' = events]_vars

UnknownDuration(cb) ==
  \/ cb.deliveryType = "scheduled" /\ settings = <<>>
  \/ cb.deliveryType = "suspend"

(* C9, as claimed: finalBasal on an open scheduled segment without settings,
   or on an open suspended segment, emits it with duration 0 and the
   annotation basal/unknown-duration. *)
C9_UnknownDuration ==
  [][(IsCall("finalBasal") /\ IsOpen(currBasal) /\ UnknownDuration(currBasal[1])) =>
       /\ Len(events') = Len(events) + 1
       /\ LastEvent(events').duration = <<0>>
       /\ LastEvent(events').annotations = <<"basal/unknown-duration">>]_vars

(* C9, amended: finalBasal on an open scheduled segment without settings, or
   on an open suspended segment that carries no declared duration, emits it
   with duration 0 and the annotation basal/unknown-duration; an open
   suspended segment that carries a declared duration is emitted with that
   duration and without annotation. *)
C9_UnknownDurationUnlessDeclared ==
  [][(IsCall("finalBasal") /\ IsOpen(currBasal) /\ UnknownDuration(currBasal[1])) =>
       /\ Len(events') = Len(events) + 1
       /\ LastEvent(events').time = currBasal[1].time
       /\ IF currBasal[1].deliveryType = "suspend" /\ currBasal[1].duration # <<>>
            THEN /\ LastEvent(events').duration = currBasal[1].duration
                 /\ LastEvent(events').annotations = <<>>
            ELSE /\ LastEvent(events').duration = <<0>>
                 /\ LastEvent(events').annotations = <<"basal/unknown-duration">>]_vars

(* finalBasal has emitted a scheduled segment of a simulator without
   settings, after a suspended one, both with duration 0 and annotated *)
C9_Witness ==
  /\ lastCall.op = "finalBasal"
  /\ lastCall.result = "ok"
  /\ settings = <<>>
  /\ Len(events) >= 1
  /\ LastEvent(events).deliveryType \in {"scheduled", "suspend"}
  /\ LastEvent(events).duration = <<0>>
  /\ LastEvent(events).annotations = <<"basal/unknown-duration">>

(* C10: finalBasal on an open temporary segment emits it as it is: the
   declared duration is unchanged and no annotation is added. *)
C10_TempAsIs ==
  [][(IsCall("finalBasal") /\ IsOpen(currBasal) /\ currBasal[1].deliveryType = "temp") =>
       /\ events' = Append(events, Done(currBasal[1]))
       /\ LastEvent(events').duration = currBasal[1].duration
       /\ LastEvent(events').annotations = currBasal[1].annotations]_vars

(* finalBasal has emitted a temporary segment with its declared duration *)
C10_Witness ==
  /\ lastCall.op = "finalBasal"
  /\ lastCall.result = "ok"
  /\ events # <<>>
  /\ LastEvent(events).deliveryType = "temp"
  /\ LastEvent(events).duration = <<1800000>>
  /\ LastEvent(events).annotations = <<>>

(* the schedule in force, and the time of day of a segment, in milliseconds *)
ActiveSchedule == settings[1].basalSchedules[settings[1].activeSchedule]

TimeOfDay(b) == DateParse(b.time) % MsInDay

(* the entry of the schedule in force that covers the segment's time of day *)
CoveringEntry(b) ==
  CHOOSE e \in { ActiveSchedule[i] : i \in 1..Len(ActiveSchedule) } :
    /\ e.start <= TimeOfDay(b)
    /\ \A i \in 1..Len(ActiveSchedule) :
         ActiveSchedule[i].start <= TimeOfDay(b) => ActiveSchedule[i].start <= e.start

(* the start of the entry after it, counted from the midnight before the
   segment: the first entry of the next day when there is none later today *)
NextEntryStart(b) ==
  LET starts == { ActiveSchedule[i].start : i \in 1..Len(ActiveSchedule) }
      later == { x \in starts : x > TimeOfDay(b) }
      Least(S) == CHOOSE x \in S : \A y \in S : x <= y
  IN  IF later # {} THEN Least(later) ELSE MsInDay + Least(starts)

OnSchedule(b) ==
  /\ b.scheduleName = settings[1].activeSchedule
  /\ b.rate = CoveringEntry(b).rate

FinalizesScheduled ==
  /\ IsCall("finalBasal")
  /\ IsOpen(currBasal)
  /\ settings # <<>>
  /\ currBasal[1].deliveryType = "scheduled"

(* C11: finalBasal on an open scheduled segment of a simulator made with
   settings, whose schedule name is the active schedule and whose rate is the
   rate of the schedule entry that covers its time of day, emits the segment
   with the duration that runs from its time of day to the start of the next
   entry (the first entry of the next day after the last entry), annotated
   with the vendor's fabricated-from-schedule code and nothing else. *)
C11_DurationFromSchedule ==
  [][(FinalizesScheduled /\ OnSchedule(currBasal[1])) =>
       /\ lastCall'.result = "ok"
       /\ events' = Append(events,
             [currBasal[1] EXCEPT
                !.duration = <<NextEntryStart(currBasal[1]) - TimeOfDay(currBasal[1])>>,
                !.annotations = <<"tandem/basal/fabricated-from-schedule">>,
                !.draft = FALSE])]_vars

(* a segment of the last entry of the day was finalized: its duration runs
   to midnight *)
C11_Witness ==
  /\ lastCall.op = "finalBasal"
  /\ events # <<>>
  /\ LastEvent(events).time = 3
  /\ LastEvent(events).rate = 13
  /\ LastEvent(events).duration = <<21600000>>
  /\ LastEvent(events).annotations = <<"tandem/basal/fabricated-from-schedule">>

(* C12: finalBasal on an open scheduled segment of a simulator made with
   settings, whose rate is not the rate of the covering schedule entry or
   whose schedule name is not the active schedule, emits the segment with
   duration 0 and two annotations, the vendor's off-schedule-rate code and
   then basal/unknown-duration. *)
C12_OffSchedule ==
  [][(FinalizesScheduled /\ ~OnSchedule(currBasal[1])) =>
       /\ lastCall'.result = "ok"
       /\ events' = Append(events,
             [currBasal[1] EXCEPT
                !.duration = <<0>>,
                !.annotations = <<"tandem/basal/off-schedule-rate", "basal/unknown-duration">>,
                !.draft = FALSE])]_vars

(* a segment that names the other schedule, with the rate the active
   schedule has at that time, was finalized *)
C12_Witness ==
  /\ lastCall.op = "finalBasal"
  /\ events # <<>>
  /\ LastEvent(events).time = 3
  /\ LastEvent(events).rate = 13
  /\ LastEvent(events).scheduleName = "bob"
  /\ LastEvent(events).duration = <<0>>
  /\ Len(LastEvent(events).annotations) = 2

(* what getEvents would return now *)
Output == GetEventsOf(events)

IsNonZeroDose(e) == e.type = "bolus" /\ e.normal # <<>> /\ e.normal # <<0>>

(* C13: a bolus with normal 0 that no termination has amended is never in the
   sequence getEvents returns, and every accepted bolus with a non-zero
   normal is in it, as often as it was accepted. *)
C13_ZeroDoseDropped ==
  LET out == Output
  IN  /\ \A j \in 1..Len(out) :
           out[j].type = "bolus" => ~(out[j].normal = <<0>> /\ out[j].expectedNormal = <<>>)
      /\ \A i \in 1..Len(events) :
           IsNonZeroDose(events[i]) => \E j \in 1..Len(out) : out[j] = DeleteIndex(events[i])
      /\ Len(SelectSeq(out, IsNonZeroDose)) = Len(SelectSeq(events, IsNonZeroDose))

(* getEvents was called after a bolus and a bolus of zero volume: it returns
   the first only *)
C13_Witness ==
  /\ lastCall.op = "getEvents"
  /\ Len(events) = 2
  /\ events[1].normal = <<13>>
  /\ events[2].type = "bolus"
  /\ events[2].normal = <<0>>
  /\ events[2].expectedNormal = <<>>
  /\ Len(Output) = 1
  /\ Output[1] = events[1]

(* the place in events of the last dose ingested *)
LastDosePos ==
  CHOOSE i \in 1..Len(events) :
    /\ events[i].type \in {"bolus", "wizard"}
    /\ \A k \in (i + 1)..Len(events) : events[k].type \notin {"bolus", "wizard"}

HasDose == \E i \in 1..Len(events) : events[i].type \in {"bolus", "wizard"}

ImmediateOutstanding(d) == d.subType # "square" /\ d.expectedNormal = <<>>

ExtendedOutstanding(d) == d.subType # "normal" /\ d.expectedExtended = <<>>

(* a termination is accepted while the last dose has a phase outstanding *)
Terminates ==
  /\ IsCall("bolusTermination")
  /\ ~Threw
  /\ HasDose
  /\ \/ ImmediateOutstanding(DoseOf(events[LastDosePos]))
     \/ ExtendedOutstanding(DoseOf(events[LastDosePos]))

TerminatesZeroDose ==
  /\ Terminates
  /\ events[LastDosePos].type = "bolus"
  /\ events[LastDosePos].normal = <<0>>

(* C14, as claimed: a bolus with normal 0 that a termination amends carries
   expectedNormal = 0 + missedInsulin and is in the sequence getEvents
   returns, whatever missedInsulin is. *)
C14_AmendedZeroDoseKept ==
  [][TerminatesZeroDose =>
       /\ events'[LastDosePos].expectedNormal = <<0 + lastArg'[1].missedInsulin>>
       /\ \E j \in 1..Len(GetEventsOf(events')) :
            GetEventsOf(events')[j] = DeleteIndex(events'[LastDosePos])]_vars

(* C14, amended: the amended bolus carries expectedNormal = 0 +
   missedInsulin, and it is in the sequence getEvents returns exactly when
   missedInsulin is not 0: expectedNormal 0 counts as no expectedNormal. *)
C14_AmendedZeroDoseKeptUnlessNothingMissed ==
  [][TerminatesZeroDose =>
       /\ events'[LastDosePos].expectedNormal = <<0 + lastArg'[1].missedInsulin>>
       /\ (\E j \in 1..Len(GetEventsOf(events')) :
             GetEventsOf(events')[j] = DeleteIndex(events'[LastDosePos]))
          <=> lastArg'[1].missedInsulin # 0]_vars

(* a bolus of zero volume was terminated with nothing missed, and getEvents
   returned nothing *)
C14_Witness ==
  /\ lastCall.op = "getEvents"
  /\ Len(events) = 1
  /\ events[1].type = "bolus"
  /\ events[1].normal = <<0>>
  /\ events[1].expectedNormal = <<0>>
  /\ Output = <<>>

(* C20: an accepted termination amends the last dose ingested in its next
   outstanding phase, the immediate phase before the extended one: in the
   immediate phase expectedNormal = normal + missedInsulin; in the extended
   phase expectedExtended = extended + missedInsulin and expectedDuration =
   duration + durationLeft; nothing else of the dose changes, and no other
   event changes. *)
C20_ExpectedIsDeclaredPlusReported ==
  [][Terminates =>
       LET p == LastDosePos
           old == DoseOf(events[p])
           new == DoseOf(events'[p])
           term == lastArg'[1]
       IN  /\ lastCall'.result = "ok"
           /\ Len(events') = Len(events)
           /\ \A i \in 1..Len(events) : i # p => events'[i] = events[i]
           /\ events'[p] = PutDose(events[p], new)
           /\ IF ImmediateOutstanding(old)
                THEN new = [old EXCEPT
                              !.expectedNormal = <<old.normal[1] + term.missedInsulin>>]
                ELSE new = [old EXCEPT
                              !.expectedExtended = <<old.extended[1] + term.missedInsulin>>,
                              !.expectedDuration = <<old.duration[1] + term.durationLeft>>]]_vars

(* both phases of a combined dose were terminated, the immediate one first *)
C20_Witness ==
  /\ lastCall.op = "bolusTermination"
  /\ Len(events) = 1
  /\ events[1].subType = "dual/square"
  /\ events[1].expectedNormal = <<40>>
  /\ events[1].expectedExtended = <<28>>
  /\ events[1].expectedDuration = <<1800000>>

(* C15: the sequence getEvents returns is in non-decreasing order of time,
   whatever was ingested and finalized, and it holds every event that passes
   the filter. *)
C15_OutputSorted ==
  LET out == Output
  IN  /\ \A i \in 1..(Len(out) - 1) : out[i].time <= out[i + 1].time
      /\ Len(out) = Len(SelectSeq(events, KeepEvent))

(* a segment was pushed after a later pass-through record, and getEvents
   would return the segment first *)
C15_Witness ==
  /\ Len(events) = 2
  /\ IsBasal(events[2])
  /\ events[1].time > events[2].time
  /\ Len(Output) = 2
  /\ IsBasal(Output[1])

(* what getEvents would return now, with the index the events still carry *)
OutputIndexed == SortByTime(SelectSeq(events, KeepEvent))

AllIndexed == \A i \in 1..Len(events) : events[i].index # <<>>

PosInEvents(e) == CHOOSE k \in 1..Len(events) : events[k] = e

(* C16, as claimed: events of equal time are returned in the order in which
   their records were passed to the simulator (the order of index). *)
C16_TiesInIngestionOrder ==
  AllIndexed =>
    LET out == OutputIndexed
    IN  \A i, j \in 1..Len(out) :
          (i < j /\ out[i].time = out[j].time) => out[i].index[1] < out[j].index[1]

(* C16, amended: events of equal time are returned in the order in which
   they were pushed: two pass-through records, or two segments, in the order
   in which they were passed to the simulator, and a segment, pushed when it
   is closed, after every record pushed before. *)
C16_TiesInPushOrder ==
  AllIndexed =>
    LET out == OutputIndexed
    IN  \A i, j \in 1..Len(out) :
          (i < j /\ out[i].time = out[j].time)
            => /\ PosInEvents(out[i]) < PosInEvents(out[j])
               /\ (IsBasal(out[i]) <=> IsBasal(out[j])) => out[i].index[1] < out[j].index[1]

(* a segment was closed after a pass-through record of the same time that
   was passed after it *)
C16_Witness ==
  /\ Len(events) = 2
  /\ IsBasal(events[2])
  /\ events[1].time = events[2].time
  /\ events[1].index # <<>> /\ events[2].index # <<>>
  /\ events[1].index[1] > events[2].index[1]
  /\ OutputIndexed = events

(* the suspends that passed the ordering check since the last resume or pod
   activation that did *)
IsResumeLike(x) == x.op \in {"resume", "podActivation"}

RunOfSuspends ==
  LET ends == { i \in 1..Len(ingested) : IsResumeLike(ingested[i]) }
      last == IF ends = {} THEN 0 ELSE CHOOSE i \in ends : \A k \in ends : k <= i
  IN  SubSeq(ingested, last + 1, Len(ingested))

EarliestSuspend == IF RunOfSuspends = <<>> THEN <<>> ELSE <<RunOfSuspends[1].rec>>

(* C17: an accepted resume is emitted with, as its previous, the earliest
   suspend accepted since the last resume or pod activation, the first of a
   run of suspends, and with no previous when there was none; so the second
   of two resumes with no suspend between them has no previous. *)
C17_PreviousIsEarliestSuspend ==
  [][(IsCall("resume") /\ ~Threw) =>
       events' = Append(events, [lastArg'[1] EXCEPT !.previous = EarliestSuspend])]_vars

(* a resume followed two suspends of different times and carries the first *)
C17_Witness ==
  /\ lastCall.op = "resume"
  /\ Len(ingested) = 3
  /\ ingested[1].op = "suspend"
  /\ ingested[2].op = "suspend"
  /\ ingested[1].rec.time < ingested[2].rec.time
  /\ LastEvent(events).status = "resumed"
  /\ LastEvent(events).previous = <<ingested[1].rec>>

(* C18, as claimed: every accepted suspend is emitted, and one that arrives
   while a suspend is pending leaves the anchor as it is. *)
C18_SuspendAlwaysEmitted ==
  [][(IsCall("suspend") /\ ~Threw) =>
       /\ events' = Append(events, lastArg'[1])
       /\ RunOfSuspends # <<>> => pendingSuspend' = pendingSuspend]_vars

(* C18, amended: an accepted suspend is emitted and becomes the anchor when
   no suspend is pending; one that arrives while a suspend is pending is not
   emitted and leaves the anchor as it is. *)
C18_FirstSuspendEmitted ==
  [][(IsCall("suspend") /\ ~Threw) =>
       IF RunOfSuspends = <<>>
         THEN /\ events' = Append(events, lastArg'[1])
              /\ pendingSuspend' = <<lastArg'[1]>>
         ELSE /\ events' = events
              /\ pendingSuspend' = pendingSuspend
              /\ pendingSuspend = EarliestSuspend]_vars

(* a second, later suspend was accepted while the first was pending *)
C18_Witness ==
  /\ lastCall.op = "suspend"
  /\ lastCall.result = "ok"
  /\ Len(ingested) = 2
  /\ ingested[1].op = "suspend"
  /\ ingested[1].rec.time < ingested[2].rec.time
  /\ events = <<ingested[1].rec>>
  /\ pendingSuspend = <<ingested[1].rec>>

(* the events a pod activation has fabricated *)
IsFabricated(e) ==
  /\ e.type = "deviceEvent"
  /\ \E i \in 1..Len(ingested) :
       ingested[i].op = "podActivation" /\ ingested[i].rec.index = e.index

(* in what getEvents would return, a fabricated resume comes before every
   segment passed to the simulator after the activation *)
FabricatedBeforeSegments ==
  AllIndexed =>
    \A i, j \in 1..Len(OutputIndexed) :
      (/\ IsFabricated(OutputIndexed[i])
       /\ IsBasal(OutputIndexed[j])
       /\ OutputIndexed[j].index[1] > OutputIndexed[i].index[1]) => i < j

(* C19: an accepted pod activation emits a resume at the activation time,
   with the pending suspend as its previous when one is pending and none
   otherwise, and clears the anchor; getEvents returns that resume before
   every segment that follows the activation; and the segments are closed as
   ever: the closed segment gets the time to its successor as its duration
   and becomes, without its own previous, the previous of the successor. *)
C19_ActivationFabricatesResume ==
  [][/\ (IsCall("podActivation") /\ ~Threw) =>
          /\ events' = Append(events, [lastArg'[1] EXCEPT !.previous = EarliestSuspend])
          /\ LastEvent(events').status = "resumed"
          /\ LastEvent(events').time = lastCall'.time[1]
          /\ pendingSuspend' = <<>>
     /\ FabricatedBeforeSegments'
     /\ (/\ IsCall("basal") /\ lastCall'.result = "ok"
         /\ IsOpen(currBasal) /\ currBasal[1].time # lastCall'.time[1]) =>
          LET closed == [currBasal[1] EXCEPT
                           !.duration = <<DateParse(lastCall'.time[1]) - DateParse(currBasal[1].time)>>,
                           !.draft = FALSE]
          IN  /\ events' = Append(events, closed)
              /\ currBasal'[1].time = lastCall'.time[1]
              /\ currBasal'[1].previous = <<[closed EXCEPT !.previous = <<>>]>>]_vars

(* a pod was activated while a suspend was pending, and two segments
   followed, the first at the time of the activation *)
C19_Witness ==
  /\ lastCall.op = "basal"
  /\ Len(ingested) = 2
  /\ ingested[1].op = "suspend"
  /\ ingested[2].op = "podActivation"
  /\ Len(events) = 3
  /\ events[2].status = "resumed"
  /\ events[2].previous = <<events[1]>>
  /\ pendingSuspend = <<>>
  /\ IsBasal(events[3])
  /\ events[3].time = events[2].time
  /\ events[3].duration = <<21600000>>
  /\ OutputIndexed = events

(* an accepted termination finds a combined dose as the last dose *)
TerminatesDual ==
  /\ IsCall("bolusTermination")
  /\ ~Threw
  /\ HasDose
  /\ events[LastDosePos].subType = "dual/square"

(* C21: the terminations that follow a combined dose settle its phases in
   order.  The first sets expectedNormal and nothing else; the second sets
   expectedExtended and expectedDuration and nothing else; a later one
   changes nothing, so no phase is amended twice; and no dose ever has its
   extended phase amended while its immediate phase is not. *)
C21_PhasesInOrder ==
  [][/\ TerminatesDual =>
          LET old == events[LastDosePos]
              new == events'[LastDosePos]
              term == lastArg'[1]
          IN  IF old.expectedNormal = <<>>
                THEN new = [old EXCEPT
                              !.expectedNormal = <<old.normal[1] + term.missedInsulin>>]
                ELSE IF old.expectedExtended = <<>>
                  THEN new = [old EXCEPT
                                !.expectedExtended = <<old.extended[1] + term.missedInsulin>>,
                                !.expectedDuration = <<old.duration[1] + term.durationLeft>>]
                  ELSE new = old
     /\ \A i \in 1..Len(events') :
          (events'[i].type = "bolus" /\ events'[i].subType = "dual/square"
             /\ events'[i].expectedExtended # <<>>) => events'[i].expectedNormal # <<>>]_vars

(* three terminations followed a combined dose: the first two settled the
   immediate and the extended phase, the third found none *)
C21_Witness ==
  /\ lastCall.op = "bolusTermination"
  /\ nops = 4
  /\ nfails = 0
  /\ Len(events) = 1
  /\ events[1].expectedNormal = <<40>>
  /\ events[1].expectedExtended = <<28>>
  /\ events[1].expectedDuration = <<1800000>>

InOrder == currTimestamp = <<>> \/ lastCall'.time[1] >= currTimestamp[1]

FailedWith(err) == lastCall'.result = err /\ events' = events /\ currTimestamp' = currTimestamp

PassedThrough == lastCall'.result = "ok" /\ events' = Append(events, lastArg'[1])

(* C22: an alarm call fails for want of a status only when the alarm's
   payload declares stopsDelivery and the alarm carries an index and no
   status, and then it always fails and appends nothing; of the alarms that
   are not out of order, exactly those fail so, and every other one, without
   stopsDelivery, without index or with a status, is appended as it is and is
   returned by getEvents with nothing but its index removed. *)
C22_AlarmNeedsStatus ==
  [][IsCall("alarm") =>
       LET e == lastArg'[1]
           bad == /\ e.payload # <<>> /\ e.payload[1].stopsDelivery
                  /\ e.index # <<>>
                  /\ e.status = <<>>
       IN  /\ lastCall'.result = "MissingRequiredContext" => bad
           /\ bad => (FailedWith("MissingRequiredContext") \/ FailedWith("OrderingViolation"))
           /\ (bad /\ InOrder) => FailedWith("MissingRequiredContext")
           /\ (~bad /\ InOrder) =>
                /\ PassedThrough
                /\ LastEvent(GetEventsOf(events')) = DeleteIndex(e)]_vars

(* an alarm that stops delivery and carries an index passed through because
   it embeds a status, after one without a status had failed *)
C22_Witness ==
  /\ lastCall.op = "alarm"
  /\ lastCall.result = "ok"
  /\ nops = 2
  /\ Len(events) = 1
  /\ events[1].payload # <<>>
  /\ events[1].index = <<2>>
  /\ events[1].status # <<>>

(* C23: a changeReservoir call with a record that embeds no status always
   fails and appends nothing; with a record that embeds a status, and is not
   out of order, the record is appended as it is. *)
C23_ReservoirChangeNeedsStatus ==
  [][IsCall("changeReservoir") =>
       LET e == lastArg'[1]
       IN  /\ e.status = <<>> =>
                (FailedWith("MissingRequiredContext") \/ FailedWith("OrderingViolation"))
           /\ (e.status = <<>> /\ InOrder) => FailedWith("MissingRequiredContext")
           /\ lastCall'.result = "MissingRequiredContext" => e.status = <<>>
           /\ (e.status # <<>> /\ InOrder) =>
                /\ PassedThrough
                /\ LastEvent(GetEventsOf(events')) = DeleteIndex(e)]_vars

(* a reservoir change without a status failed after one with a status had
   passed through *)
C23_Witness ==
  /\ lastCall.op = "changeReservoir"
  /\ lastCall.result = "MissingRequiredContext"
  /\ lastArg[1].status = <<>>
  /\ Len(events) = 1
  /\ events[1].subType = "reservoirChange"
  /\ events[1].status # <<>>

(* ------------------------------------------------------------------ *)
(* TimezoneOffsetUtil                                                  *)
(* ------------------------------------------------------------------ *)

Built == resolver.stage = "built"

Fields == resolver.fields[1]

OffsetIntervals == Fields.offsetIntervals

(* C24: constructing a resolver fails when the timezone name is invalid or
   when mostRecent does not parse as a date; the timezone is checked first,
   and after either failure no clock-change record has been processed. *)
C24_ArgumentsCheckedFirst ==
  (resolver.stage # "new" /\ (~ValidTimezone(resolver.timezone) \/ resolver.mostRecent = <<>>)) =>
     /\ resolver.stage = "failed"
     /\ resolver.error = IF ~ValidTimezone(resolver.timezone)
                           THEN <<"InvalidTimezone">> ELSE <<"InvalidTimestamp">>
     /\ resolver.fields = <<>>
     /\ \A k \in 1..Len(resolver.changes) :
          resolver.changes[k].jsDate # <<>> /\ resolver.changes[k].time = <<>>

(* a construction with a valid timezone and two time changes failed on its
   mostRecent *)
C24_Witness ==
  /\ resolver.stage = "failed"
  /\ ValidTimezone(resolver.timezone)
  /\ resolver.mostRecent = <<>>
  /\ Len(resolver.changes) = 2
  /\ \A k \in 1..2 : resolver.changes[k].subType = "timeChange"

(* the intervals are chained: n + 1 of them, the first ending at mostRecent,
   every other one ending where the next more recent one starts, and only
   the last, the oldest, without a start *)
Chained(intervals, n) ==
  /\ Len(intervals) = n + 1
  /\ intervals[1].end = resolver.mostRecent
  /\ \A i \in 2..(n + 1) : intervals[i].end = intervals[i - 1].start
  /\ \A i \in 1..(n + 1) : intervals[i].start = <<>> <=> i = n + 1
  /\ \A i \in 1..(n + 1) : intervals[i].end # <<>>

StartNotAfterEnd(interval) ==
  interval.start # <<>> => interval.start[1] <= interval.end[1]

(* the resolved times of the changes, most recent first, do not increase,
   and none is later than mostRecent *)
ResolvedInOrder ==
  LET records == Fields.records
  IN  /\ records[1].time[1] <= resolver.mostRecent[1]
      /\ \A i \in 2..Len(records) : records[i].time[1] <= records[i - 1].time[1]

(* C25 as stated: n >= 1 changes give n + 1 chained intervals, one without a
   start, the first ending at mostRecent, and no interval starts after its
   end. *)
C25_IntervalsPartition ==
  (Built /\ resolver.changes # <<>>) =>
     /\ Chained(OffsetIntervals, Len(resolver.changes))
     /\ \A i \in 1..Len(OffsetIntervals) : StartNotAfterEnd(OffsetIntervals[i])

(* C25: n >= 1 changes give n + 1 chained intervals: exactly one, the
   oldest, has no start, the most recent ends at mostRecent and every other
   one ends where the next more recent one starts; no interval starts after
   its end provided the times the changes resolve to are in the order of
   their indexes and not later than mostRecent. *)
C25_IntervalsChained ==
  (Built /\ resolver.changes # <<>>) =>
     /\ Chained(OffsetIntervals, Len(resolver.changes))
     /\ ResolvedInOrder =>
          \A i \in 1..Len(OffsetIntervals) : StartNotAfterEnd(OffsetIntervals[i])

(* two changes passed oldest first, resolved to times in index order, gave
   three intervals of which the middle one has a positive length *)
C25_Witness ==
  /\ Built
  /\ Len(resolver.changes) = 2
  /\ resolver.changes[1].index < resolver.changes[2].index
  /\ ResolvedInOrder
  /\ Len(OffsetIntervals) = 3
  /\ OffsetIntervals[2].start[1] < OffsetIntervals[2].end[1]

(* the index lies inside the bounds the interval carries *)
IndexWithin(interval, index) ==
  /\ interval.startIndex # <<>> => index < interval.startIndex[1]
  /\ interval.endIndex # <<>> => index > interval.endIndex[1]

(* the UTC time lies between the interval's start, if any, and its end *)
TimeWithin(interval, utc) ==
  /\ interval.start # <<>> => utc >= interval.start[1]
  /\ utc <= interval.end[1]

(* the interval a lookup of this mode stops at *)
Chosen(interval, datetime, index) ==
  IF index # <<>> THEN IndexWithin(interval, index[1])
  ELSE TimeWithin(interval, datetime - interval.timezoneOffset)

LookedUp == lookupResult # <<>> /\ lookupResult[1].via = "lookup"

(* C26: a lookup with a sequence index returns the first interval whose
   index bounds contain the index, whatever the time; a lookup without one
   returns the first interval that contains the time; the result carries that
   interval's offset and the local time less that offset, and there is no
   result when no interval qualifies. *)
C26_LookupByIndexElseTime ==
  (LookedUp /\ OffsetIntervals # <<>>) =>
     LET l == lookupResult[1]
         intervals == OffsetIntervals
         hits == { i \in 1..Len(intervals) : Chosen(intervals[i], l.datetime, l.index) }
     IN  /\ hits = {} => l.result = <<>>
         /\ hits # {} =>
              LET i == CHOOSE h \in hits : \A g \in hits : h <= g
              IN  l.result = <<[time |-> l.datetime - intervals[i].timezoneOffset,
                                timezoneOffset |-> intervals[i].timezoneOffset]>>

(* a lookup with an index returned an interval that does not contain the
   time, while another interval does *)
C26_Witness ==
  /\ LookedUp
  /\ lookupResult[1].index # <<>>
  /\ lookupResult[1].result # <<>>
  /\ LET l == lookupResult[1]
         intervals == OffsetIntervals
     IN  /\ \E i \in 1..Len(intervals) :
               /\ IndexWithin(intervals[i], l.index[1])
               /\ ~TimeWithin(intervals[i], l.datetime - intervals[i].timezoneOffset)
               /\ l.result[1].timezoneOffset = intervals[i].timezoneOffset
         /\ \E j \in 1..Len(intervals) :
               /\ TimeWithin(intervals[j], l.datetime - intervals[j].timezoneOffset)
               /\ intervals[j].timezoneOffset # l.result[1].timezoneOffset

(* the changes have distinct indexes, local times that follow the order of
   the indexes, and resolve to times in that order *)
WellFormed ==
  /\ Built
  /\ resolver.changes # <<>>
  /\ \A j, k \in 1..Len(resolver.changes) :
       /\ j # k => resolver.changes[j].index # resolver.changes[k].index
       /\ resolver.changes[j].index < resolver.changes[k].index =>
            resolver.changes[j].jsDate[1] <= resolver.changes[k].jsDate[1]
  /\ ResolvedInOrder

NoResult(l) == l.result = <<>>

(* the local time is not later than mostRecent under the latest offset *)
NotAfterMostRecent(datetime) ==
  datetime - OffsetIntervals[1].timezoneOffset <= resolver.mostRecent[1]

(* C27: from well-formed changes, every lookup by a sequence index, and
   every lookup of a local time not later than mostRecent, has a result. *)
C27_EveryLookupCovered ==
  (WellFormed /\ lookupResult # <<>>) =>
     LET l == lookupResult[1]
     IN  (l.index # <<>> \/ NotAfterMostRecent(l.datetime)) => ~NoResult(l)

(* what the code does for a lookup by index: there is a result exactly when
   the index is that of no change *)
C27_CoveredUnlessOnAChange ==
  (WellFormed /\ LookedUp /\ lookupResult[1].index # <<>>) =>
     (NoResult(lookupResult[1]) <=>
        \E k \in 1..Len(resolver.changes) :
           resolver.changes[k].index = lookupResult[1].index[1])

(* fillInUTCInfo for a record that carries the index of a change of a
   well-formed array ended in a TypeError *)
C27_Witness ==
  /\ WellFormed
  /\ lookupResult # <<>>
  /\ lookupResult[1].via = "fillInUTCInfo"
  /\ lookupResult[1].index = <<4>>
  /\ lookupResult[1].threw

(* the clock delta of a change: from minus to, in minutes *)
Delta(event) == event.change.from - event.change.to

(* C29: every processed change moves currentOffset by its clock delta
   rounded to the nearest multiple of 15 minutes, and not at all when the
   delta is more than 1560 minutes either way. *)
C29_AdjustedByQuarterHours ==
  Built =>
    \A k \in 1..Len(Fields.adjusted) :
       LET a == Fields.adjusted[k]
       IN  a.after = IF Abs(Delta(a.event)) > MAX_DIFF THEN a.before
                     ELSE a.before + RoundTo(Delta(a.event), 15)

(* what the code does: the delta rounded to 15 minutes decides whether the
   offset moves, and it moves by the delta rounded to whole hours *)
C29_AdjustedByHours ==
  Built =>
    \A k \in 1..Len(Fields.adjusted) :
       LET a == Fields.adjusted[k]
       IN  a.after = IF Abs(RoundTo(Delta(a.event), 15)) > MAX_DIFF THEN a.before
                     ELSE a.before + RoundTo(Delta(a.event), 60)

(* a change of a quarter of an hour left the offset where it was *)
C29_Witness ==
  /\ Built
  /\ \E k \in 1..Len(Fields.adjusted) :
       /\ Delta(Fields.adjusted[k].event) = 15
       /\ Fields.adjusted[k].after = Fields.adjusted[k].before

(* the change of the input that carries the index *)
InputChange(index) ==
  resolver.changes[CHOOSE k \in 1..Len(resolver.changes) : resolver.changes[k].index = index]

(* C30: whatever the order of the input, the changes are processed from the
   highest index down; the interval of the k-th most recent change carries
   the offset left by the k-1 more recent ones, before its own adjustment;
   every change but the most recent resolves to its local time less that
   offset; the last interval carries the offset left by all the changes. *)
C30_MostRecentFirst ==
  (Built /\ resolver.changes # <<>>) =>
     LET n == Len(resolver.changes)
         records == Fields.records
         adjusted == Fields.adjusted
         intervals == OffsetIntervals
     IN  /\ Len(records) = n
         /\ { records[k].index : k \in 1..n } = { resolver.changes[k].index : k \in 1..n }
         /\ \A k \in 2..n : records[k].index < records[k - 1].index
         /\ adjusted[1].before = GetOffsetFromZone(records[1].time[1], resolver.timezone)
         /\ \A k \in 2..n : adjusted[k].before = adjusted[k - 1].after
         /\ \A k \in 1..n :
              /\ adjusted[k].event = InputChange(records[k].index)
              /\ intervals[k].timezoneOffset = adjusted[k].before
              /\ intervals[k].endIndex = <<records[k].index>>
              /\ records[k].timezoneOffset = <<adjusted[k].before>>
         /\ \A k \in 2..n :
              records[k].time =
                <<InputChange(records[k].index).jsDate[1] - adjusted[k].before>>
         /\ intervals[n + 1].timezoneOffset = adjusted[n].after

(* two changes passed oldest first, the more recent of which moved the
   offset: the second interval carries the moved offset *)
C30_Witness ==
  /\ Built
  /\ Len(resolver.changes) = 2
  /\ resolver.changes[1].index < resolver.changes[2].index
  /\ Fields.records[1].index = resolver.changes[2].index
  /\ OffsetIntervals[2].timezoneOffset # OffsetIntervals[1].timezoneOffset
  /\ OffsetIntervals[3].timezoneOffset # OffsetIntervals[2].timezoneOffset

(* ------------------------------------------------------------------ *)
(* appActions.upload                                                   *)
(* ------------------------------------------------------------------ *)

(* a step of the app on the entry i *)
AppDid(op, i) ==
  /\ app'.nsteps = app.nsteps + 1
  /\ app'.last.op = op
  /\ app'.last.index = i

OtherEntriesKept(i) ==
  \A j \in 1..Len(app.uploads) : j # i => app'.uploads[j] = app.uploads[j]

(* C28: upload(i) on an entry that has a progress fails and starts nothing,
   so no entry ever has two device uploads running; on an entry without one
   it sets the progress to the target, the time, the step 'start' and 0 per
   cent; when the upload finishes the progress is cleared and its record is
   put in front of the entry's history. *)
C28_OneUploadPerEntry ==
  [][\A i \in 1..Len(app.uploads) :
       /\ AppDid("upload", i) =>
            /\ app.uploads[i].progress # <<>> =>
                 /\ app'.last.result = "progress"
                 /\ app'.uploads = app.uploads
                 /\ app'.jobs = app.jobs
            /\ app.uploads[i].progress = <<>> =>
                 /\ app'.last.result = "ok"
                 /\ app'.uploads[i].progress =
                      <<[targetId |-> app.targetId, start |-> app.now,
                         step |-> "start", percentage |-> 0]>>
                 /\ app'.uploads[i].history = app.uploads[i].history
                 /\ OtherEntriesKept(i)
            /\ app'.jobs[i] <= 1
       /\ AppDid("finish", i) =>
            /\ app'.uploads[i].progress = <<>>
            /\ Len(app'.uploads[i].history) = Len(app.uploads[i].history) + 1
            /\ Tail(app'.uploads[i].history) = app.uploads[i].history
            /\ LET record == Head(app'.uploads[i].history)
                   p == app.uploads[i].progress[1]
               IN  /\ record.targetId = p.targetId
                   /\ record.start = p.start
                   /\ record.step = p.step
                   /\ record.percentage = p.percentage
                   /\ record.finish = app.now
            /\ OtherEntriesKept(i)]_vars

(* an upload that finished later than it started is the first of the two
   records of its entry's history, in front of the earlier one *)
C28_Witness ==
  /\ app.stage = "bound"
  /\ app.last.op = "finish"
  /\ app.nsteps = 4
  /\ LET e == app.uploads[app.last.index]
     IN  /\ e.progress = <<>>
         /\ Len(e.history) = 2
         /\ e.history[1].targetId = app.targetId
         /\ e.history[1].finish > e.history[1].start
         /\ e.history[2].targetId = "1"

(* a record of the index could show the local time: the clock had been set
   to no later a time by every change before it, and still showed no
   earlier a time when every change after it was made *)
BoundedInDeviceOrder(index, datetime) ==
  \A k \in 1..Len(resolver.changes) :
     LET c == resolver.changes[k]
     IN  /\ c.index # index
         /\ c.index < index => c.change.to <= datetime
         /\ c.index > index => datetime <= c.change.from

(* no change made after the record set the clock back to or behind the
   record's local time: the clock showed that time once only *)
ShownOnce(index, datetime) ==
  \A k \in 1..Len(resolver.changes) :
     resolver.changes[k].index > index => datetime < resolver.changes[k].change.to

(* C31 as stated: for a record bounded in device order by the changes around
   it, the lookup by index and the lookup by time return the same offset and
   the same UTC time. *)
C31_IndexAndTimeAgree ==
  (WellFormed /\ LookedUp /\ lookupResult[1].index # <<>>) =>
     LET l == lookupResult[1]
     IN  BoundedInDeviceOrder(l.index[1], l.datetime) =>
           l.result = LookupValue(l.datetime, <<>>)

(* C31: for a record bounded in device order by the changes around it, the
   lookup by index and the lookup by time return the same offset and the
   same UTC time, provided no later change set the clock back to or behind
   the record's local time. *)
C31_AgreeUnlessShownTwice ==
  (WellFormed /\ LookedUp /\ lookupResult[1].index # <<>>) =>
     LET l == lookupResult[1]
     IN  (BoundedInDeviceOrder(l.index[1], l.datetime) /\ ShownOnce(l.index[1], l.datetime)) =>
           /\ l.result # <<>>
           /\ l.result = LookupValue(l.datetime, <<>>)

(* a record between two changes that both moved the offset was looked up by
   its index and the lookup by time agrees *)
C31_Witness ==
  /\ WellFormed
  /\ LookedUp
  /\ Len(resolver.changes) = 2
  /\ lookupResult[1].index = <<3>>
  /\ BoundedInDeviceOrder(3, lookupResult[1].datetime)
  /\ ShownOnce(3, lookupResult[1].datetime)
  /\ lookupResult[1].result # <<>>
  /\ lookupResult[1].result = LookupValue(lookupResult[1].datetime, <<>>)
  /\ OffsetIntervals[2].timezoneOffset # OffsetIntervals[1].timezoneOffset
  /\ OffsetIntervals[3].timezoneOffset # OffsetIntervals[2].timezoneOffset

(* ------------------------------------------------------------------ *)
(* Frame conditions of the simulator                                   *)
(* ------------------------------------------------------------------ *)

(* C32: a segment that carries a declared duration when a successor closes
   it is pushed with that duration, not with the time to the successor, and
   with every other field as it was. *)
C32_DeclaredDurationKept ==
  [][(ClosedOne /\ IsAssignedDuration(currBasal[1])) =>
       /\ LastEvent(events').duration = currBasal[1].duration
       /\ LastEvent(events').duration #
            <<DateParse(lastCall'.time[1]) - DateParse(currBasal[1].time)>>
       /\ LastEvent(events') = Done(currBasal[1])]_vars

(* a temporary segment declared for half an hour was closed by a successor
   a tick or more later and kept its half hour *)
C32_Witness ==
  /\ lastCall.op = "basal"
  /\ lastCall.result = "ok"
  /\ currBasal # <<>>
  /\ currBasal[1].previous # <<>>
  /\ events # <<>>
  /\ LastEvent(events).deliveryType = "temp"
  /\ LastEvent(events).duration = <<1800000>>
  /\ currBasal[1].time > LastEvent(events).time
  /\ currBasal[1].previous[1].duration = <<1800000>>

IsTermination(e) == e.type = "termination"

(* C33: an accepted termination leaves every accumulated event but the last
   dose ingested as it was, adds no event, and the sequence getEvents
   returns holds no termination and, the amended dose apart, the events it
   held before. *)
C33_TerminationAmendsLastDoseOnly ==
  [][(IsCall("bolusTermination") /\ ~Threw) =>
       /\ Len(events') = Len(events)
       /\ \A k \in 1..Len(events) :
            (~HasDose \/ k # LastDosePos) => events'[k] = events[k]
       /\ LET before == GetEventsOf(events)
              after == GetEventsOf(events')
              dose == IF HasDose THEN {DeleteIndex(events[LastDosePos]),
                                       DeleteIndex(events'[LastDosePos])}
                      ELSE {}
          IN  /\ SelectSeq(after, IsTermination) = <<>>
              /\ SelectSeq(after, LAMBDA e : e \notin dose) =
                   SelectSeq(before, LAMBDA e : e \notin dose)]_vars

(* two doses were ingested and a termination amended the second: the first
   is as it was ingested *)
C33_Witness ==
  /\ lastCall.op = "bolusTermination"
  /\ lastCall.result = "ok"
  /\ Len(events) = 2
  /\ events[1].type = "bolus"
  /\ events[1].normal = <<13>>
  /\ events[1].expectedNormal = <<>>
  /\ events[2].type = "bolus"
  /\ events[2].expectedNormal # <<>>
  /\ events[2].time = events[1].time

(* C34: a call that throws the ordering error, of a pass-through method or
   of basal, leaves the last accepted time, the open segment and the
   accumulated events as they were. *)
C34_FailedIngestChangesNothing ==
  [][(IsIngest /\ Threw) =>
       /\ currTimestamp' = currTimestamp
       /\ currBasal' = currBasal
       /\ events' = events
       /\ currTimestamp # <<>>
       /\ lastCall'.time[1] < currTimestamp[1]]_vars

(* a segment earlier than the last accepted time has just been refused
   while a segment was open and another one closed *)
C34_Witness ==
  /\ lastCall.op = "basal"
  /\ lastCall.result = "OrderingViolation"
  /\ currBasal # <<>>
  /\ currBasal[1].previous # <<>>
  /\ Len(events) = 1
  /\ currTimestamp = <<currBasal[1].time>>
  /\ lastCall.time[1] < currTimestamp[1]

(* the number of elements of the sequence that have the time *)
CountAt(s, t) == Len(SelectSeq(s, LAMBDA e : e.time = t))

(* C35: whatever calls were made, finalBasal more than once and calls after
   it included, no accepted segment is twice among the events getEvents
   returns: no index is on two of them, and for every time there are no more
   segments of that time than segments of that time were accepted. *)
C35_SegmentAtMostOnce ==
  LET segs == OutputSegments
      kept == Segments
  IN  /\ Len(segs) = Len(kept)
      /\ Len(segs) <= Len(history)
      /\ \A t \in Times : CountAt(segs, t) <= Len(SelectSeq(history, LAMBDA h : h = t))
      /\ \A i, j \in 1..Len(kept) :
           (i # j /\ kept[i].index # <<>>) => kept[i].index # kept[j].index

(* finalBasal was called a second time after two segments: both are
   returned, once each *)
C35_Witness ==
  /\ lastCall.op = "finalBasal"
  /\ lastCall.result = "TypeError"
  /\ Len(history) = 2
  /\ Len(OutputSegments) = 2
  /\ OutputSegments[1].time < OutputSegments[2].time

(* s is t with some elements left out *)
RECURSIVE IsSubsequence(_, _)
IsSubsequence(s, t) ==
  IF s = <<>> THEN TRUE
  ELSE IF t = <<>> THEN FALSE
  ELSE IF Head(s) = Head(t) THEN IsSubsequence(Tail(s), Tail(t))
  ELSE IsSubsequence(s, Tail(t))

(* C36: getEvents keeps the accumulated events, so that a second call made
   at once returns the same sequence; and whatever call follows, the
   sequence returned next holds the events returned before, in their order,
   together with the new ones. *)
C36_GetEventsKeepsEvents ==
  [][nops' = nops + 1 =>
       LET before == GetEventsOf(events)
           after == GetEventsOf(events')
       IN  /\ IsCall("getEvents") =>
                /\ Len(events') = Len(events)
                /\ after = before
           /\ IsSubsequence(before, after)
           /\ Len(after) - Len(before) =
                Len(SelectSeq(events', KeepEvent)) - Len(SelectSeq(events, KeepEvent))]_vars

(* an event that getEvents has returned is returned again, ahead of one
   ingested after the call *)
C36_Witness ==
  /\ nops = 4
  /\ lastCall.op = "finalBasal"
  /\ lastCall.result = "ok"
  /\ Len(events) = 2
  /\ events[1].index = <<>>
  /\ events[2].index # <<>>
  /\ Len(Output) = 2
  /\ Output[1] = events[1]

(* the event is among those getEvents returns *)
Returned(out, e) == \E j \in 1..Len(out) : out[j] = DeleteIndex(e)

(* a wizard that embeds a bolus of volume 0 *)
IsZeroWizard(e) == e.type = "wizard" /\ e.bolus # <<>> /\ e.bolus[1].normal = <<0>>

(* C37: a wizard is left out of the sequence getEvents returns exactly when
   it embeds a bolus with normal 0 that carries no expectedNormal; every
   event that is neither a bolus nor a wizard is returned. *)
C37_WizardDroppedIfUnamendedZero ==
  LET out == Output
  IN  \A i \in 1..Len(events) :
        /\ events[i].type = "wizard" =>
             (~Returned(out, events[i]) <=>
                (IsZeroWizard(events[i]) /\ events[i].bolus[1].expectedNormal = <<>>))
        /\ events[i].type \notin {"bolus", "wizard"} => Returned(out, events[i])

(* what the code does: an expectedNormal of 0 counts as none *)
C37_WizardDroppedIfNothingExpected ==
  LET out == Output
  IN  \A i \in 1..Len(events) :
        /\ events[i].type = "wizard" =>
             (~Returned(out, events[i]) <=>
                (IsZeroWizard(events[i]) /\ events[i].bolus[1].expectedNormal \in {<<>>, <<0>>}))
        /\ events[i].type \notin {"bolus", "wizard"} => Returned(out, events[i])

(* a wizard whose bolus of volume 0 was amended with an expectedNormal of 0
   is not returned *)
C37_Witness ==
  /\ Len(events) = 1
  /\ IsZeroWizard(events[1])
  /\ events[1].bolus[1].expectedNormal = <<0>>
  /\ Output = <<>>


====
